---------------------------- MODULE Spec2Model ----------------------------
(***************************************************************************)
(* SignalSight GPS pipeline: GPSTrafficLightSystem (src/GPS/gps_system.py) *)
(* and TrafficLightDB (src/GPS/traffic_light_db.py); the coordinator       *)
(* (src/signalsight.py) and the detection state machine                    *)
(* (src/YOLO_Detection_Model/CNN/cnn_system.py).                           *)
(*                                                                         *)
(* Units.  Latitude and longitude are integers in 1e-4 degree.  Speeds of  *)
(* a velocity frame are km/h, speeds of a Fix are m/s; the frame speeds    *)
(* used are multiples of 18 so that the division by 3.6 is exact.          *)
(* Python's None is the empty sequence, a present value v is <<v>>.        *)
(* GPSPosition objects live in a heap: _position, the locals of the        *)
(* threads and the value returned by get_current_position() are            *)
(* references into it, as they are in Python.                              *)
(***************************************************************************)
EXTENDS Integers, Sequences, FiniteSets, TLC

VARIABLES
    running,          \* self._running
    position,         \* self._position: 0 (None) or a reference into heap
    heap,             \* the GPSPosition objects
    nearby_lights,    \* self._nearby_lights
    query_count,      \* self._query_count
    gps_serial,       \* self._gps_serial: "None", "open", "closed"
    arduino_serial,   \* self._arduino_serial: "None", "open", "closed"
    db,               \* self._db: "None", "open", "closed" (the caller's handle)
    gps_thread,       \* self._gps_thread: 0 (None) or a thread id
    query_thread,     \* self._query_thread: 0 (None) or a thread id
    arduino_port,     \* configuration: TRUE when an actuator port is configured
    on_position,      \* configuration: TRUE when a position callback is registered
    rpc,              \* reader threads: where each one is in _gps_reader_loop
    rmsg,             \* reader threads: the local msg (the last frame read)
    rspeed,           \* reader threads: the local speed of _process_gga_message
    rheading,         \* reader threads: the local heading of _process_gga_message
    rnew,             \* reader threads: the local position of _process_gga_message
    qpc,              \* poller threads: where each one is in _query_loop
    qpos,             \* poller threads: the local position of _query_loop
    alerts,           \* number of alerts dispatched (callback or actuator)
    cpc,              \* the caller: where it is in start() or stop()
    cret,             \* the caller: its last start() returned True ("true"), False
                      \* as already running ("false_running"), False after a
                      \* failure ("false_failed"), or has not returned ("none")
    cin,              \* the caller: the call it made last, "none", "start" or "stop"
    craised,          \* the caller: a call of its has raised an exception
    starts,           \* number of start() calls that launched threads
    calls,            \* number of start() and stop() calls made
    stopped,          \* a stop() has completed after a successful start()
    snap,             \* an accessor's get_current_position() result
    probe,            \* a direct call of a function by an external caller: its
                      \* name, its arguments and what it returned or raised
    locks,            \* the holder of self._position_lock, of self._lock of the
                      \* pipeline and of self._lock of the database, or "free"
    lpc,              \* threads at statement granularity: the statement each is at
    frame,            \* database clients: the locals of their call in progress
    conn,             \* the threads whose thread-local connection exists
    asked,            \* database clients: the arguments of their call in progress
    served,           \* database clients: number of calls each has completed
    state_queue,      \* SignalSight.state_queue: the pending updates of each type
    system_state,     \* SignalSight.system_state
    ss_running,       \* SignalSight.running
    loop,             \* the coordinator: where it is in _coordination_loop
    taken,            \* the coordinator: updates taken in the current iteration
    arduino,          \* the ArduinoInterface: connected, no_arduino, ser
    last_send,        \* the outcome of the coordinator's last send_state call
    ppc,              \* the producers: where each one is in its callback
    detection         \* live_traffic_light_detection: current_state,
                      \* missed_frames and what the last frame detected

vars == <<running, position, heap, nearby_lights, query_count, gps_serial,
          arduino_serial, db, gps_thread, query_thread, arduino_port,
          on_position, rpc, rmsg, rspeed, rheading, rnew, qpc, qpos, alerts,
          cpc, cret, cin, craised, starts, calls, stopped, snap, probe,
          locks, lpc, frame, conn, asked, served, state_queue, system_state,
          ss_running, loop, taken, arduino, last_send, ppc, detection>>

clientVars == <<locks, lpc, frame, conn, asked, served>>

coordVars == <<state_queue, system_state, ss_running, loop, taken, arduino,
               last_send, ppc, detection>>

-----------------------------------------------------------------------------
(* Bounds of the model *)

MaxStarts == 2
MaxCalls == 3
MaxCount == 2
\* frames without a detection in a row, and boxes in one frame
MaxMissed == 5
MaxBoxes == 2

Threads == 1..MaxStarts
\* one cell for each reference the program holds, and one to allocate in
ObjIds == 1..(2 * MaxStarts + 3)

-----------------------------------------------------------------------------
(* Python values *)

None == <<>>
Some(v) == <<v>>

\* bool(x) of an optional number: None and 0 / 0.0 are false
Truthy(o) == o # None /\ o[1] # 0

\* bool(x) of an optional string: None and "" are false, "00" is true
StrTruthy(o) == o # None

\* bool(x) of a float
FloatTruthy(x) == x # 0

-----------------------------------------------------------------------------
(* GPSPosition and the heap *)

GPSPosition(lat, lon, alt, spd, hdg, sats, qual) ==
    [latitude |-> lat, longitude |-> lon, altitude |-> alt, speed |-> spd,
     heading |-> hdg, satellites |-> sats, fix_quality |-> qual]

\* the content of a heap cell that holds no object
Blank == GPSPosition(0, 0, None, None, None, 0, 0)

\* the cells some reference of the program points to
Referenced(pos, rn, qp, sn) ==
    {pos} \cup {rn[t] : t \in Threads} \cup {qp[t] : t \in Threads} \cup {sn.ref}

\* reference counting: a cell nothing points to is freed
Collect(h, refs) == [i \in ObjIds |-> IF i \in refs THEN h[i] ELSE Blank]

\* the cell a new object is allocated in
NewObj(refs) == CHOOSE i \in ObjIds : i \notin refs /\ \A j \in ObjIds : j < i => j \in refs


-----------------------------------------------------------------------------
(* NMEA frames as pynmea2 delivers them.  msg.latitude and msg.longitude    *)
(* are floats, 0.0 when the field is absent; gps_qual is an optional        *)
(* integer, altitude an optional float, num_sats a string; the two speeds   *)
(* and the track of a VTG sentence are optional floats.                     *)

GGA(lat, lon, qual, alt, sats) ==
    [kind |-> "GGA", latitude |-> lat, longitude |-> lon, gps_qual |-> qual,
     altitude |-> alt, num_sats |-> sats]

VTG(kmph, track) ==
    [kind |-> "VTG", spd_over_grnd_kmph |-> kmph, true_track |-> track]

\* the local msg of a reader that has parsed nothing yet
NoMsg == [kind |-> "none"]

\* 40 units (445 m) south of the light of the dataset, and 30 units south
LatHome == 450000 - 40
LonHome == 0 - 750000

LatNext == 450000 - 30

\* the frames of the position specification: positions with and without a
\* fix, at sea level, on the equator and on the prime meridian; velocities
\* with and without speed and track, at rest and heading north
FixFrames ==
    { GGA(LatHome, LonHome, Some(1), Some(70), Some(8)),
      GGA(LatNext, LonHome, Some(2), None, None),
      GGA(LatNext, LonHome, Some(1), Some(0), Some(8)),
      GGA(LatNext, LonHome, Some(0), Some(70), Some(8)),
      GGA(LatNext, LonHome, None, Some(70), Some(8)),
      GGA(0, LonHome, Some(1), Some(70), Some(8)),
      GGA(LatNext, 0, Some(1), Some(70), Some(8)),
      VTG(Some(36), Some(180)),
      VTG(Some(0), Some(0)),
      VTG(None, None) }

\* the frames of the lifecycle specifications
LifeFrames == {GGA(LatHome, LonHome, Some(1), Some(70), Some(8))}

-----------------------------------------------------------------------------
(* _process_gga_message and _process_vtg_message: the field conversions *)

\* "if not msg.latitude or not msg.longitude: return"
GgaHasNoCoordinates(msg) == ~FloatTruthy(msg.latitude) \/ ~FloatTruthy(msg.longitude)

\* "fix_quality = int(msg.gps_qual) if msg.gps_qual else 0"
FixQuality(msg) == IF Truthy(msg.gps_qual) THEN msg.gps_qual[1] ELSE 0

\* "if fix_quality == 0: return  # No fix"
GgaNoFixNeverMutant(msg) == FALSE
GgaNoFix(msg) == FixQuality(msg) = 0

\* "altitude = None; if msg.altitude: altitude = float(msg.altitude)"
ParseAltitude(msg) == IF Truthy(msg.altitude) THEN Some(msg.altitude[1]) ELSE None

\* "satellites = 0; if msg.num_sats: satellites = int(msg.num_sats)"
ParseSatellites(msg) == IF StrTruthy(msg.num_sats) THEN msg.num_sats[1] ELSE 0

\* "float(msg.spd_over_grnd_kmph) / 3.6"
KmphToMps(kmph) == (kmph * 10) \div 36

\* the speed _process_vtg_message leaves in a Fix whose speed was old
VtgSpeed(msg, old) ==
    IF Truthy(msg.spd_over_grnd_kmph) THEN Some(KmphToMps(msg.spd_over_grnd_kmph[1])) ELSE old

\* the heading _process_vtg_message leaves in a Fix whose heading was old
VtgHeading(msg, old) ==
    IF Truthy(msg.true_track) THEN Some(msg.true_track[1]) ELSE old

-----------------------------------------------------------------------------
(* The reader thread: _gps_reader_loop *)

\* "while self._running:"
ReaderLoopTest(t) ==
    /\ rpc[t] = "loop"
    /\ rpc' = [rpc EXCEPT ![t] = IF running THEN "read" ELSE "done"]
    /\ UNCHANGED <<running, position, heap, nearby_lights, query_count, gps_serial,
                   arduino_serial, db, gps_thread, query_thread, arduino_port,
                   on_position, rmsg, rspeed, rheading, rnew, qpc, qpos, alerts,
                   cpc, cret, cin, craised, starts, calls, stopped, snap, probe, clientVars, coordVars>>

\* "if not self._gps_serial or not self._gps_serial.is_open: sleep; continue"
ReaderSerialClosed(t) ==
    /\ rpc[t] = "read"
    /\ gps_serial # "open"
    /\ rpc' = [rpc EXCEPT ![t] = "loop"]
    /\ UNCHANGED <<running, position, heap, nearby_lights, query_count, gps_serial,
                   arduino_serial, db, gps_thread, query_thread, arduino_port,
                   on_position, rmsg, rspeed, rheading, rnew, qpc, qpos, alerts,
                   cpc, cret, cin, craised, starts, calls, stopped, snap, probe, clientVars, coordVars>>

\* the exceptions of the model: serial.SerialException, and "Exception" for
\* every other subclass of Exception
Exceptions == {"SerialException", "Exception"}

\* the handlers of the loop: "except serial.SerialException" (log, sleep 1.0)
\* and "except Exception" (log, sleep 0.1); the result is where the thread
\* goes when e is raised inside the try block
ReaderHandlerNoneMutant(e) == "done"
ReaderHandler(e) == IF e = "SerialException" THEN "serial_except" ELSE "other_except"

\* readline() raises: SerialException when the device fails, another
\* exception when the port is closed under the read
ReaderReadRaises(t) ==
    /\ rpc[t] = "read"
    /\ gps_serial = "open"
    /\ \E e \in Exceptions : rpc' = [rpc EXCEPT ![t] = ReaderHandler(e)]
    /\ UNCHANGED <<running, position, heap, nearby_lights, query_count, gps_serial,
                   arduino_serial, db, gps_thread, query_thread, arduino_port,
                   on_position, rmsg, rspeed, rheading, rnew, qpc, qpos, alerts,
                   cpc, cret, cin, craised, starts, calls, stopped, snap, probe, clientVars, coordVars>>

\* a handler of the loop has logged and slept: next iteration
ReaderHandlerDone(t) ==
    /\ rpc[t] \in {"serial_except", "other_except"}
    /\ rpc' = [rpc EXCEPT ![t] = "loop"]
    /\ UNCHANGED <<running, position, heap, nearby_lights, query_count, gps_serial,
                   arduino_serial, db, gps_thread, query_thread, arduino_port,
                   on_position, rmsg, rspeed, rheading, rnew, qpc, qpos, alerts,
                   cpc, cret, cin, craised, starts, calls, stopped, snap, probe, clientVars, coordVars>>

\* readline() returned nothing, a line without '$', an unparseable sentence or
\* a sentence of another type: "continue"
ReaderSkip(t) ==
    /\ rpc[t] = "read"
    /\ gps_serial = "open"
    /\ rpc' = [rpc EXCEPT ![t] = "loop"]
    /\ UNCHANGED <<running, position, heap, nearby_lights, query_count, gps_serial,
                   arduino_serial, db, gps_thread, query_thread, arduino_port,
                   on_position, rmsg, rspeed, rheading, rnew, qpc, qpos, alerts,
                   cpc, cret, cin, craised, starts, calls, stopped, snap, probe, clientVars, coordVars>>

\* readline() returned a GGA or VTG sentence that pynmea2 parsed
ReaderParsed(t, frames) ==
    /\ rpc[t] = "read"
    /\ gps_serial = "open"
    /\ \E f \in frames :
          /\ rmsg' = [rmsg EXCEPT ![t] = f]
          /\ rpc' = [rpc EXCEPT ![t] = IF f.kind = "GGA" THEN "gga" ELSE "vtg"]
    /\ UNCHANGED <<running, position, heap, nearby_lights, query_count, gps_serial,
                   arduino_serial, db, gps_thread, query_thread, arduino_port,
                   on_position, rspeed, rheading, rnew, qpc, qpos, alerts,
                   cpc, cret, cin, craised, starts, calls, stopped, snap, probe, clientVars, coordVars>>

AfterNoFixClearedMutant(pos) == 0

\* the two early "return" of _process_gga_message: self._position after a
\* frame without coordinates or without fix is what it was
AfterNoFix(pos) == pos

\* _process_gga_message up to the first "with self._position_lock" included
ProcessGgaRead(t) ==
    /\ rpc[t] = "gga"
    /\ IF GgaHasNoCoordinates(rmsg[t]) \/ GgaNoFix(rmsg[t])
       THEN /\ rpc' = [rpc EXCEPT ![t] = "loop"]
            /\ position' = AfterNoFix(position)
            /\ UNCHANGED <<rspeed, rheading>>
       ELSE /\ rpc' = [rpc EXCEPT ![t] = "gga_pub"]
            /\ position' = position
            /\ rspeed' = [rspeed EXCEPT ![t] =
                            IF position # 0 THEN heap[position].speed ELSE None]
            /\ rheading' = [rheading EXCEPT ![t] =
                            IF position # 0 THEN heap[position].heading ELSE None]
    /\ UNCHANGED <<running, heap, nearby_lights, query_count, gps_serial,
                   arduino_serial, db, gps_thread, query_thread, arduino_port,
                   on_position, rmsg, rnew, qpc, qpos, alerts,
                   cpc, cret, cin, craised, starts, calls, stopped, snap, probe, clientVars, coordVars>>

\* ---- the lines the reader drops ----

\* what readline() returned: whether it returned any bytes, whether the
\* decoded text begins with '$', whether pynmea2.parse accepts it, and the
\* type of the sentence parsed
Line(bytes, marker, parses, type) ==
    [bytes |-> bytes, marker |-> marker, parses |-> parses, type |-> type]

\* an empty read (timeout), a line without the marker, a sentence that does
\* not parse, and a parsed sentence that is neither GGA nor VTG
SkippedLines ==
    { Line(FALSE, FALSE, FALSE, "none"),
      Line(TRUE, FALSE, FALSE, "none"),
      Line(TRUE, TRUE, FALSE, "none"),
      Line(TRUE, TRUE, TRUE, "RMC") }

\* the statements that end an iteration without processing a frame: the
\* three "continue" and the end of the try block
ContinueStatements ==
    {"continue_empty", "continue_no_marker", "continue_unparseable", "continue_other"}

ReaderDispatchOtherAsGgaMutant(line) ==
    IF ~line.bytes THEN "continue_empty"
    ELSE IF ~line.marker THEN "continue_no_marker"
    ELSE IF ~line.parses THEN "continue_unparseable"
    ELSE "gga"

\* "if not line: continue", "if not sentence.startswith('$'): continue",
\* "except pynmea2.ParseError: continue", then the two isinstance tests
ReaderDispatch(line) ==
    IF ~line.bytes THEN "continue_empty"
    ELSE IF ~line.marker THEN "continue_no_marker"
    ELSE IF ~line.parses THEN "continue_unparseable"
    ELSE IF line.type = "GGA" THEN "gga"
    ELSE IF line.type = "VTG" THEN "vtg"
    ELSE "continue_other"

\* the reader reads the given line and reaches the statement it is
\* dispatched to
ReaderReads(t, line) ==
    /\ rpc[t] = "read"
    /\ gps_serial = "open"
    /\ rpc' = [rpc EXCEPT ![t] = ReaderDispatch(line)]
    /\ UNCHANGED <<running, position, heap, nearby_lights, query_count, gps_serial,
                   arduino_serial, db, gps_thread, query_thread, arduino_port,
                   on_position, rmsg, rspeed, rheading, rnew, qpc, qpos, alerts,
                   cpc, cret, cin, craised, starts, calls, stopped, snap, probe, clientVars, coordVars>>

ReaderReadLine(t) == \E line \in SkippedLines : ReaderReads(t, line)

\* "continue", or the end of the loop body: back to the loop test
ReaderContinue(t) ==
    /\ rpc[t] \in ContinueStatements
    /\ rpc' = [rpc EXCEPT ![t] = "loop"]
    /\ UNCHANGED <<running, position, heap, nearby_lights, query_count, gps_serial,
                   arduino_serial, db, gps_thread, query_thread, arduino_port,
                   on_position, rmsg, rspeed, rheading, rnew, qpc, qpos, alerts,
                   cpc, cret, cin, craised, starts, calls, stopped, snap, probe, clientVars, coordVars>>

\* the GPSPosition _process_gga_message builds
BuildPosition(msg, spd, hdg) ==
    GPSPosition(msg.latitude, msg.longitude, ParseAltitude(msg), spd, hdg,
                ParseSatellites(msg), FixQuality(msg))

\* "position = GPSPosition(...); with self._position_lock: self._position = position"
ProcessGgaPublish(t) ==
    /\ rpc[t] = "gga_pub"
    /\ LET new == NewObj(Referenced(position, rnew, qpos, snap))
           rn == [rnew EXCEPT ![t] = IF on_position THEN new ELSE 0]
       IN /\ position' = new
          /\ rnew' = rn
          /\ heap' = Collect([heap EXCEPT ![new] =
                                BuildPosition(rmsg[t], rspeed[t], rheading[t])],
                             Referenced(new, rn, qpos, snap))
    /\ rspeed' = [rspeed EXCEPT ![t] = None]
    /\ rheading' = [rheading EXCEPT ![t] = None]
    /\ rpc' = [rpc EXCEPT ![t] = IF on_position THEN "gga_cb" ELSE "loop"]
    /\ UNCHANGED <<running, nearby_lights, query_count, gps_serial,
                   arduino_serial, db, gps_thread, query_thread, arduino_port,
                   on_position, rmsg, qpc, qpos, alerts,
                   cpc, cret, cin, craised, starts, calls, stopped, snap, probe, clientVars, coordVars>>

\* "except Exception as e: logger.error(...)" around the position callback:
\* where the thread goes when the callback raises
CallbackHandlerPropagateMutant == ReaderHandler("Exception")
CallbackHandler == "cb_except"

\* "self._on_position_update(position)" returns, and the function returns to
\* the loop, or raises
ProcessGgaCallback(t) ==
    /\ rpc[t] = "gga_cb"
    /\ \E raises \in BOOLEAN :
          IF raises
          THEN /\ rpc' = [rpc EXCEPT ![t] = CallbackHandler]
               /\ UNCHANGED <<rnew, heap>>
          ELSE /\ rpc' = [rpc EXCEPT ![t] = "loop"]
               /\ LET rn == [rnew EXCEPT ![t] = 0]
                  IN /\ rnew' = rn
                     /\ heap' = Collect(heap, Referenced(position, rn, qpos, snap))
    /\ UNCHANGED <<running, position, nearby_lights, query_count, gps_serial,
                   arduino_serial, db, gps_thread, query_thread, arduino_port,
                   on_position, rmsg, rspeed, rheading, qpc, qpos, alerts,
                   cpc, cret, cin, craised, starts, calls, stopped, snap, probe, clientVars, coordVars>>

\* the handler of the callback has logged: the function returns to the loop
ProcessGgaCallbackCaught(t) ==
    /\ rpc[t] = "cb_except"
    /\ rpc' = [rpc EXCEPT ![t] = "loop"]
    /\ LET rn == [rnew EXCEPT ![t] = 0]
       IN /\ rnew' = rn
          /\ heap' = Collect(heap, Referenced(position, rn, qpos, snap))
    /\ UNCHANGED <<running, position, nearby_lights, query_count, gps_serial,
                   arduino_serial, db, gps_thread, query_thread, arduino_port,
                   on_position, rmsg, rspeed, rheading, qpc, qpos, alerts,
                   cpc, cret, cin, craised, starts, calls, stopped, snap, probe, clientVars, coordVars>>

\* _process_vtg_message, the whole of it under self._position_lock
ProcessVtg(t) ==
    /\ rpc[t] = "vtg"
    /\ rpc' = [rpc EXCEPT ![t] = "loop"]
    /\ heap' = IF position = 0 THEN heap
               ELSE [heap EXCEPT ![position].speed = VtgSpeed(rmsg[t], @),
                                 ![position].heading = VtgHeading(rmsg[t], @)]
    /\ UNCHANGED <<running, position, nearby_lights, query_count, gps_serial,
                   arduino_serial, db, gps_thread, query_thread, arduino_port,
                   on_position, rmsg, rspeed, rheading, rnew, qpc, qpos, alerts,
                   cpc, cret, cin, craised, starts, calls, stopped, snap, probe, clientVars, coordVars>>

-----------------------------------------------------------------------------
(* Accessors *)

\* "with self._position_lock: return self._position": the caller keeps the
\* reference it was handed; seen is the object's content at that moment
GetCurrentPosition ==
    /\ LET sn == [ref |-> position,
                  seen |-> IF position = 0 THEN Blank ELSE heap[position]]
       IN /\ snap' = sn
          /\ heap' = Collect(heap, Referenced(position, rnew, qpos, sn))
    /\ UNCHANGED <<running, position, nearby_lights, query_count, gps_serial,
                   arduino_serial, db, gps_thread, query_thread, arduino_port,
                   on_position, rpc, rmsg, rspeed, rheading, rnew, qpc, qpos, alerts,
                   cpc, cret, cin, craised, starts, calls, stopped, probe, clientVars, coordVars>>

-----------------------------------------------------------------------------
(* The dataset and TrafficLightDB.get_nearby_lights_fast.  Every point of   *)
(* the model lies on the meridian LonHome, where the haversine distance is  *)
(* EARTH_RADIUS_M times the difference of the latitudes in radians:         *)
(* 111195 m per degree.  Distances are in centimetres.                      *)

readerVars == <<rpc, rmsg, rspeed, rheading, rnew>>
pollerVars == <<qpc, qpos>>
callerVars == <<cpc, cret, cin, craised, calls, stopped>>
configVars == <<arduino_port, on_position>>
channelVars == <<gps_serial, arduino_serial, db>>

\* the rows of the traffic_lights table
Dataset ==
    { [id |-> 1, lat |-> 450000, lon |-> LonHome],
      [id |-> 2, lat |-> 450020, lon |-> LonHome],
      [id |-> 3, lat |-> 449990, lon |-> LonHome] }

\* the metres per degree of latitude _get_bounding_box divides by
BoxMetersPerDegree == 111320

\* _get_bounding_box on the meridian: the latitudes from lat - lat_delta to
\* lat + lat_delta, where lat_delta = radius_m / 111320 degree.  With lat in
\* 1e-4 degree and the radius in cm, lat_delta is radius * 100 in units of
\* 1e-4 / 111320 degree, which keeps it an integer; the longitude interval
\* of the box contains the meridian.
GetBoundingBox(lat, radius) == [lat |-> lat, lat_delta |-> radius * 100]

\* "WHERE lat BETWEEN ? AND ? AND lon BETWEEN ? AND ?": min_lat <= row.lat
\* and row.lat <= max_lat
Between(box, row) ==
    /\ (box.lat - row.lat) * BoxMetersPerDegree <= box.lat_delta
    /\ (row.lat - box.lat) * BoxMetersPerDegree <= box.lat_delta

\* the candidates the SELECT of get_nearby_lights_fast returns
Candidates(lat, radius) ==
    {row \in Dataset : Between(GetBoundingBox(lat, radius), row)}

Abs(x) == IF x < 0 THEN 0 - x ELSE x

\* _haversine_distance of two points of the meridian, in cm
HaversineDistance(lat1, lat2) == (Abs(lat2 - lat1) * 111195) \div 100

\* self.search_radius (default 500.0 m), in cm
SearchRadius == 50000

TrafficLight(row, d) == [id |-> row.id, lat |-> row.lat, lon |-> row.lon, distance |-> d]

\* "if distance <= radius_m: results.append(TrafficLight(...))" over the
\* candidates
WithinRadius(lat, radius) ==
    {TrafficLight(row, HaversineDistance(lat, row.lat)) :
        row \in {r \in Candidates(lat, radius) : HaversineDistance(lat, r.lat) <= radius}}

\* "results.sort(key=lambda x: x.distance)"
RECURSIVE SortByDistance(_)
SortByDistance(S) ==
    IF S = {} THEN <<>>
    ELSE LET m == CHOOSE x \in S :
                    \A y \in S : x.distance < y.distance
                                 \/ (x.distance = y.distance /\ x.id <= y.id)
         IN <<m>> \o SortByDistance(S \ {m})

\* the parameters get_nearby_lights_fast declares besides self
QueryParams == {"lat", "lon", "radius_m"}

\* the keyword arguments the call of _query_loop passes
QueryLoopKeywords == {"heading", "heading_cone"}

\* Python binds the arguments before the body runs: a keyword the function
\* does not declare raises TypeError
CallRaisesNeverMutant(keywords) == FALSE
CallRaisesTypeError(keywords) == ~(keywords \subseteq QueryParams)

\* get_nearby_lights_fast(lat, lon, radius_m) at a point of the meridian
GetNearbyLightsFast(lat, radius) == SortByDistance(WithinRadius(lat, radius))

QueryInvalidNeverMutant(lat, lon, radius) == FALSE

\* "if not (-90 <= lat <= 90)", "if not (-180 <= lon <= 180)",
\* "if radius_m <= 0": the arguments that raise ValueError
QueryInvalid(lat, lon, radius) ==
    \/ ~(0 - 900000 <= lat /\ lat <= 900000)
    \/ ~(0 - 1800000 <= lon /\ lon <= 1800000)
    \/ radius <= 0

\* a call get_nearby_lights_fast(lat, lon, radius_m, **keywords): what it
\* raises ("none" when it returns) and the list it returns.  The arguments
\* are bound first, then validated ("if not (-90 <= lat <= 90)",
\* "if radius_m <= 0"), then the body runs.
CallGetNearbyLightsFast(lat, radius, keywords) ==
    IF CallRaisesTypeError(keywords)
    THEN [raised |-> "TypeError", lights |-> <<>>]
    ELSE IF QueryInvalid(lat, LonHome, radius)
    THEN [raised |-> "ValueError", lights |-> <<>>]
    ELSE [raised |-> "none", lights |-> GetNearbyLightsFast(lat, radius)]

-----------------------------------------------------------------------------
(* The poller thread: _query_loop.  A modelled tick is one whose query      *)
(* interval has elapsed.                                                    *)

\* "while self._running:"
PollerLoopTest(t) ==
    /\ qpc[t] = "loop"
    /\ qpc' = [qpc EXCEPT ![t] = IF running THEN "tick" ELSE "done"]
    /\ UNCHANGED <<running, position, heap, nearby_lights, query_count,
                   channelVars, gps_thread, query_thread, configVars,
                   readerVars, qpos, alerts, callerVars, starts, snap, probe, clientVars, coordVars>>

\* "with self._position_lock: position = self._position" and
\* "if not position: sleep; continue"
PollerSnapshot(t) ==
    /\ qpc[t] = "tick"
    /\ LET qp == [qpos EXCEPT ![t] = position]
       IN /\ qpos' = qp
          /\ heap' = Collect(heap, Referenced(position, rnew, qp, snap))
    /\ qpc' = [qpc EXCEPT ![t] = IF position = 0 THEN "loop" ELSE "query"]
    /\ UNCHANGED <<running, position, nearby_lights, query_count,
                   channelVars, gps_thread, query_thread, configVars,
                   readerVars, alerts, callerVars, starts, snap, probe, clientVars, coordVars>>

\* the zone limits (50, 100 and 250 m), in cm
ZONE_IMMINENT == 5000
ZONE_NEAR == 10000
ZONE_APPROACHING == 25000

\* _get_distance_zone
GetDistanceZoneStrictMutant(d) ==
    IF d < ZONE_IMMINENT THEN "imminent"
    ELSE IF d < ZONE_NEAR THEN "near"
    ELSE IF d < ZONE_APPROACHING THEN "approaching"
    ELSE "far"
GetDistanceZone(d) ==
    IF d <= ZONE_IMMINENT THEN "imminent"
    ELSE IF d <= ZONE_NEAR THEN "near"
    ELSE IF d <= ZONE_APPROACHING THEN "approaching"
    ELSE "far"

\* the name under which a poller thread owns its thread-local connection
\* (self._local.conn, created by _get_connection in the body of a query)
PollerThread(t) == "poller" \o ToString(t)

\* the rest of a tick: the arguments position.latitude, position.longitude
\* and position.heading are read from the object the snapshot refers to, then
\* the query, the statistics, the stored result and the alert (sent to the
\* actuator and to the callback, each under its own handler); an exception
\* of the query is caught by the loop's handler, which sleeps and goes to the
\* next iteration
PollerQuery(t) ==
    /\ qpc[t] = "query"
    /\ qpc' = [qpc EXCEPT ![t] = "loop"]
    /\ IF CallRaisesTypeError(QueryLoopKeywords)
       THEN UNCHANGED <<nearby_lights, query_count, alerts>>
       ELSE LET lights == GetNearbyLightsFast(heap[qpos[t]].latitude, SearchRadius)
            IN /\ nearby_lights' = lights
               /\ query_count' = IF query_count < MaxCount THEN query_count + 1
                                 ELSE query_count
               /\ alerts' = IF lights # <<>> /\ alerts < MaxCount THEN alerts + 1
                            ELSE alerts
    /\ conn' = IF CallRaisesTypeError(QueryLoopKeywords) THEN conn
               ELSE conn \cup {PollerThread(t)}
    /\ UNCHANGED <<running, position, heap, channelVars, gps_thread, query_thread,
                   configVars, readerVars, qpos, callerVars, starts, snap, probe,
                   locks, lpc, frame, asked, served, coordVars>>

-----------------------------------------------------------------------------
(* start() and stop(), called by one caller thread *)

\* "if self._running: return False"
StartRefusesNeverMutant == FALSE
StartRefusesStoppedMutant == running \/ stopped
StartRefuses == running

\* start() called while the pipeline is running
StartRefused ==
    /\ cpc = "idle"
    /\ calls < MaxCalls
    /\ StartRefuses
    /\ calls' = calls + 1
    /\ cin' = "start"
    /\ cret' = "false_running"
    /\ UNCHANGED <<running, position, heap, nearby_lights, query_count,
                   channelVars, gps_thread, query_thread, configVars,
                   readerVars, pollerVars, alerts, cpc, craised, stopped,
                   starts, snap, probe, clientVars, coordVars>>

\* start() called while the pipeline is not running: it enters the try block
StartBegin ==
    /\ cpc = "idle"
    /\ calls < MaxCalls
    /\ starts < MaxStarts
    /\ ~StartRefuses
    /\ calls' = calls + 1
    /\ cin' = "start"
    /\ cret' = "none"
    /\ cpc' = "s_db"
    /\ UNCHANGED <<running, position, heap, nearby_lights, query_count,
                   channelVars, gps_thread, query_thread, configVars,
                   readerVars, pollerVars, alerts, craised, stopped,
                   starts, snap, probe, clientVars, coordVars>>

\* "self._db = TrafficLightDB(self.db_path); stats = self._db.get_stats()":
\* both return, or the constructor raises FileNotFoundError or ValueError and
\* self._db keeps its value, or get_stats() raises on the assigned, open
\* dataset; the handler of start() then calls stop().  (The handle a failing
\* constructor has opened dies with the constructor's object.)
StartOpenDb ==
    /\ cpc = "s_db"
    /\ \E outcome \in {"ok", "init_raises", "get_stats_raises"} :
          /\ db' = IF outcome = "init_raises" THEN db ELSE "open"
          /\ cpc' = IF outcome = "ok" THEN "s_gps" ELSE "p_begin"
    /\ UNCHANGED <<running, position, heap, nearby_lights, query_count,
                   gps_serial, arduino_serial, gps_thread, query_thread,
                   configVars, readerVars, pollerVars, alerts, cret, cin,
                   craised, calls, stopped, starts, snap, probe, clientVars, coordVars>>

\* "self._gps_serial = serial.Serial(...)": opens, or raises SerialException
StartOpenGps ==
    /\ cpc = "s_gps"
    /\ \E ok \in BOOLEAN :
          IF ok THEN gps_serial' = "open" /\ cpc' = "s_ard"
          ELSE gps_serial' = gps_serial /\ cpc' = "p_begin"
    /\ UNCHANGED <<running, position, heap, nearby_lights, query_count,
                   arduino_serial, db, gps_thread, query_thread,
                   configVars, readerVars, pollerVars, alerts, cret, cin,
                   craised, calls, stopped, starts, snap, probe, clientVars, coordVars>>

\* "if self.arduino_port: self._arduino_serial = serial.Serial(...)"
StartOpenArduino ==
    /\ cpc = "s_ard"
    /\ IF ~arduino_port THEN arduino_serial' = arduino_serial /\ cpc' = "s_run"
       ELSE \E ok \in BOOLEAN :
               IF ok THEN arduino_serial' = "open" /\ cpc' = "s_run"
               ELSE arduino_serial' = arduino_serial /\ cpc' = "p_begin"
    /\ UNCHANGED <<running, position, heap, nearby_lights, query_count,
                   gps_serial, db, gps_thread, query_thread,
                   configVars, readerVars, pollerVars, alerts, cret, cin,
                   craised, calls, stopped, starts, snap, probe, clientVars, coordVars>>

\* "self._running = True", the two threads are created and started,
\* "return True"
StartLaunch ==
    /\ cpc = "s_run"
    /\ LET t == starts + 1
       IN /\ running' = TRUE
          /\ gps_thread' = t
          /\ query_thread' = t
          /\ rpc' = [rpc EXCEPT ![t] = "loop"]
          /\ qpc' = [qpc EXCEPT ![t] = "loop"]
          /\ starts' = t
    /\ cret' = "true"
    /\ cpc' = "idle"
    /\ UNCHANGED <<position, heap, nearby_lights, query_count, channelVars,
                   configVars, rmsg, rspeed, rheading, rnew, qpos, alerts,
                   cin, craised, calls, stopped, snap, probe, clientVars, coordVars>>

\* stop() called
StopCall ==
    /\ cpc = "idle"
    /\ calls < MaxCalls
    /\ calls' = calls + 1
    /\ cin' = "stop"
    /\ cpc' = "p_begin"
    /\ UNCHANGED <<running, position, heap, nearby_lights, query_count,
                   channelVars, gps_thread, query_thread, configVars,
                   readerVars, pollerVars, alerts, cret, craised, stopped,
                   starts, snap, probe, clientVars, coordVars>>

\* "self._running = False"
StopClearFlag ==
    /\ cpc = "p_begin"
    /\ running' = FALSE
    /\ cpc' = "p_join_gps"
    /\ UNCHANGED <<position, heap, nearby_lights, query_count,
                   channelVars, gps_thread, query_thread, configVars,
                   readerVars, pollerVars, alerts, cret, cin, craised, calls,
                   stopped, starts, snap, probe, clientVars, coordVars>>

\* "if self._gps_thread and self._gps_thread.is_alive(): join(timeout=2.0)":
\* the join returns when the thread has ended or when 2 s have passed; time
\* is not modelled, so it may return while the thread is still in its loop
StopJoinGps ==
    /\ cpc = "p_join_gps"
    /\ cpc' = "p_join_query"
    /\ UNCHANGED <<running, position, heap, nearby_lights, query_count,
                   channelVars, gps_thread, query_thread, configVars,
                   readerVars, pollerVars, alerts, cret, cin, craised, calls,
                   stopped, starts, snap, probe, clientVars, coordVars>>

\* "if self._query_thread and self._query_thread.is_alive(): join(timeout=2.0)"
StopJoinQuery ==
    /\ cpc = "p_join_query"
    /\ cpc' = "p_close_gps"
    /\ UNCHANGED <<running, position, heap, nearby_lights, query_count,
                   channelVars, gps_thread, query_thread, configVars,
                   readerVars, pollerVars, alerts, cret, cin, craised, calls,
                   stopped, starts, snap, probe, clientVars, coordVars>>

\* "if self._gps_serial and self._gps_serial.is_open:"
StopClosesGpsAlwaysMutant == TRUE
StopClosesGpsNeverMutant == FALSE
StopClosesGps == gps_serial = "open"

\* the state of a serial attribute after close() was called on it; close()
\* on None raises AttributeError
Closed(ch) == IF ch = "None" THEN "None" ELSE "closed"

\* "self._gps_serial.close()" under its guard
StopCloseGps ==
    /\ cpc = "p_close_gps"
    /\ cpc' = "p_close_ard"
    /\ IF StopClosesGps
       THEN gps_serial' = Closed(gps_serial) /\ craised' = (craised \/ gps_serial = "None")
       ELSE UNCHANGED <<gps_serial, craised>>
    /\ UNCHANGED <<running, position, heap, nearby_lights, query_count,
                   arduino_serial, db, gps_thread, query_thread, configVars,
                   readerVars, pollerVars, alerts, cret, cin, calls,
                   stopped, starts, snap, probe, clientVars, coordVars>>

\* "if self._arduino_serial and self._arduino_serial.is_open: close()"
StopCloseArduino ==
    /\ cpc = "p_close_ard"
    /\ cpc' = "p_close_db"
    /\ arduino_serial' = IF arduino_serial = "open" THEN "closed" ELSE arduino_serial
    /\ UNCHANGED <<running, position, heap, nearby_lights, query_count,
                   gps_serial, db, gps_thread, query_thread, configVars,
                   readerVars, pollerVars, alerts, cret, cin, craised, calls,
                   stopped, starts, snap, probe, clientVars, coordVars>>

\* "if self._db: self._db.close()" (TrafficLightDB.close closes the calling
\* thread's handle when there is one), the statistics are logged, stop()
\* returns; a stop() called by the handler of start() is followed by
\* "return False"
StopCloseDb ==
    /\ cpc = "p_close_db"
    /\ cpc' = "idle"
    /\ db' = IF db # "None" THEN "closed" ELSE db
    /\ cret' = IF cin = "start" THEN "false_failed" ELSE cret
    /\ stopped' = (stopped \/ starts > 0)
    /\ UNCHANGED <<running, position, heap, nearby_lights, query_count,
                   gps_serial, arduino_serial, gps_thread, query_thread,
                   configVars, readerVars, pollerVars, alerts, cin, craised,
                   calls, starts, snap, probe, clientVars, coordVars>>

-----------------------------------------------------------------------------
(* The locks, at the granularity of statements.  The threads are the       *)
(* reader, the poller, a caller of the accessors, and the clients of one   *)
(* TrafficLightDB calling get_nearby_lights_fast (as the worker threads of *)
(* benchmark_concurrent_access do).  For the pipeline's threads only the   *)
(* statement reached and the locks held are kept here; the data their      *)
(* statements move is that of the reader, poller and accessor actions      *)
(* above.                                                                   *)

\* calls each database client makes
MaxQueries == 2

Clients == {"a", "b"}
LockThreads == {"reader", "poller", "caller"} \cup Clients

\* self._position_lock and self._lock of the pipeline, self._lock of the
\* database
LockNames == {"position", "result", "dataset"}

\* entering "with lock:": the thread waits until the lock is free
Acquire(lock, t) ==
    /\ locks[lock] = "free"
    /\ locks' = [locks EXCEPT ![lock] = t]

ReleaseNeverMutant(lock, t) == locks' = locks

\* leaving "with lock:"
Release(lock, t) == locks' = [locks EXCEPT ![lock] = "free"]

Goto(t, pc) == lpc' = [lpc EXCEPT ![t] = pc]

\* ---- the reader: _gps_reader_loop ----

\* "line = self._gps_serial.readline()" and the parse: a GGA frame with a
\* fix, a VTG frame, a line that is skipped (empty, unparsable, a GGA frame
\* without a fix, another sentence), or an exception, handled by a sleep
LockReaderReadline ==
    /\ lpc["reader"] = "readline"
    /\ \E next \in {"gga_with_old", "vtg_with", "readline", "handler"} :
          Goto("reader", next)
    /\ UNCHANGED <<locks, frame, conn, asked, served>>

\* "except ...: logger.error(...); time.sleep(...)"
LockReaderHandler ==
    /\ lpc["reader"] = "handler"
    /\ Goto("reader", "readline")
    /\ UNCHANGED <<locks, frame, conn, asked, served>>

\* _process_gga_message: "with self._position_lock:" before the old speed
\* and heading are read
LockGgaEnterOld ==
    /\ lpc["reader"] = "gga_with_old"
    /\ Acquire("position", "reader")
    /\ Goto("reader", "gga_old")
    /\ UNCHANGED <<frame, conn, asked, served>>

\* "speed = self._position.speed; heading = self._position.heading" and the
\* end of the block
LockGgaReadOld ==
    /\ lpc["reader"] = "gga_old"
    /\ Release("position", "reader")
    /\ Goto("reader", "gga_build")
    /\ UNCHANGED <<frame, conn, asked, served>>

\* "position = GPSPosition(...)"
LockGgaBuild ==
    /\ lpc["reader"] = "gga_build"
    /\ Goto("reader", "gga_with_new")
    /\ UNCHANGED <<locks, frame, conn, asked, served>>

\* the second "with self._position_lock:"
LockGgaEnterNew ==
    /\ lpc["reader"] = "gga_with_new"
    /\ Acquire("position", "reader")
    /\ Goto("reader", "gga_new")
    /\ UNCHANGED <<frame, conn, asked, served>>

\* "self._position = position" and the end of the block; then the callback
\* if one is registered
LockGgaPublish ==
    /\ lpc["reader"] = "gga_new"
    /\ Release("position", "reader")
    /\ \E registered \in BOOLEAN :
          Goto("reader", IF registered THEN "gga_callback" ELSE "readline")
    /\ UNCHANGED <<frame, conn, asked, served>>

\* inside the callback: a call of get_current_position(), or of
\* get_nearby_lights() or get_closest_light(), as on_position_update of
\* signalsight.py makes, enters the accessor's "with" block
LockCallbackEnter ==
    /\ lpc["reader"] = "gga_callback"
    /\ \E lock \in {"position", "result"} :
          /\ Acquire(lock, "reader")
          /\ Goto("reader", IF lock = "position" THEN "cb_position" ELSE "cb_result")
    /\ UNCHANGED <<frame, conn, asked, served>>

\* the accessor called by the callback returns
LockCallbackReturn ==
    /\ lpc["reader"] \in {"cb_position", "cb_result"}
    /\ Release(IF lpc["reader"] = "cb_position" THEN "position" ELSE "result", "reader")
    /\ Goto("reader", "gga_callback")
    /\ UNCHANGED <<frame, conn, asked, served>>

\* "self._on_position_update(position)" in its try block returns or raises
LockGgaCallback ==
    /\ lpc["reader"] = "gga_callback"
    /\ Goto("reader", "readline")
    /\ UNCHANGED <<locks, frame, conn, asked, served>>

\* _process_vtg_message: "with self._position_lock:"
LockVtgEnter ==
    /\ lpc["reader"] = "vtg_with"
    /\ Acquire("position", "reader")
    /\ Goto("reader", "vtg_update")
    /\ UNCHANGED <<frame, conn, asked, served>>

\* the speed and heading written into the Fix, and the end of the block
LockVtgUpdate ==
    /\ lpc["reader"] = "vtg_update"
    /\ Release("position", "reader")
    /\ Goto("reader", "readline")
    /\ UNCHANGED <<frame, conn, asked, served>>

\* ---- the poller: _query_loop ----

\* "with self._position_lock:" of a tick whose interval has elapsed
LockPollerEnter ==
    /\ lpc["poller"] = "snapshot_with"
    /\ Acquire("position", "poller")
    /\ Goto("poller", "snapshot")
    /\ UNCHANGED <<frame, conn, asked, served>>

\* "position = self._position" and the end of the block; without a Fix the
\* tick sleeps and ends
LockPollerSnapshot ==
    /\ lpc["poller"] = "snapshot"
    /\ Release("position", "poller")
    /\ \E fix \in BOOLEAN :
          Goto("poller", IF fix THEN "query" ELSE "handler")
    /\ UNCHANGED <<frame, conn, asked, served>>

\* "lights = self.db.get_nearby_lights_fast(..., heading=..., heading_cone=...)":
\* the call raises while its arguments are bound, so the statements after
\* it, the block "with self._lock: self._nearby_lights = lights" among
\* them, are not reached
LockPollerQuery ==
    /\ lpc["poller"] = "query"
    /\ CallRaisesTypeError(QueryLoopKeywords)
    /\ Goto("poller", "handler")
    /\ UNCHANGED <<locks, frame, conn, asked, served>>

\* "except Exception: logger.error(...); time.sleep(0.1)", or the sleep of
\* a tick without a Fix
LockPollerHandler ==
    /\ lpc["poller"] = "handler"
    /\ Goto("poller", "snapshot_with")
    /\ UNCHANGED <<locks, frame, conn, asked, served>>

\* ---- a caller of the accessors ----

\* get_current_position() enters "with self._position_lock:";
\* get_nearby_lights() and get_closest_light() enter "with self._lock:"
LockAccessorEnter ==
    /\ lpc["caller"] = "idle"
    /\ \E lock \in {"position", "result"} :
          /\ Acquire(lock, "caller")
          /\ Goto("caller", lock)
    /\ UNCHANGED <<frame, conn, asked, served>>

\* "return self._position", "return self._nearby_lights.copy()",
\* "return self._nearby_lights[0] if ..." and the end of the block
LockAccessorReturn ==
    /\ lpc["caller"] \in {"position", "result"}
    /\ Release(lpc["caller"], "caller")
    /\ Goto("caller", "idle")
    /\ UNCHANGED <<frame, conn, asked, served>>

\* ---- a client of the database: get_nearby_lights_fast ----

\* the arguments clients pass: two valid queries with different results, and
\* a latitude, a longitude and a radius out of range
ClientArgs ==
    { [lat |-> LatHome, lon |-> LonHome, radius_m |-> SearchRadius],
      [lat |-> 450000, lon |-> LonHome, radius_m |-> 40000],
      [lat |-> 900001, lon |-> LonHome, radius_m |-> SearchRadius],
      [lat |-> 450000, lon |-> 1800001, radius_m |-> SearchRadius],
      [lat |-> 450000, lon |-> LonHome, radius_m |-> 0] }

NoArgs == [lat |-> 0, lon |-> 0, radius_m |-> 0]

\* the locals of a call before its body has run
NewFrame(args) ==
    [lat |-> args.lat, lon |-> args.lon, radius_m |-> args.radius_m,
     box |-> <<>>, cursor |-> <<>>, candidates |-> {}, found |-> {},
     results |-> <<>>, raised |-> "none"]

FrameSharedMutant(c) == "a"

\* the locals of a call belong to that call
FrameOf(c) == c

Local(c) == frame[FrameOf(c)]

SetLocal(c, f) == frame' = [frame EXCEPT ![FrameOf(c)] = f]

\* a thread calls db.get_nearby_lights_fast(lat, lon, radius_m)
ClientCall(c) ==
    /\ lpc[c] = "idle"
    /\ served[c] < MaxQueries
    /\ \E args \in ClientArgs :
          /\ asked' = [asked EXCEPT ![c] = args]
          /\ SetLocal(c, NewFrame(args))
    /\ Goto(c, "validate")
    /\ UNCHANGED <<locks, conn, served>>

\* the three "if ...: raise ValueError(...)", then _get_bounding_box
ClientValidate(c) ==
    /\ lpc[c] = "validate"
    /\ IF QueryInvalid(Local(c).lat, Local(c).lon, Local(c).radius_m)
       THEN /\ SetLocal(c, [Local(c) EXCEPT !.raised = "ValueError"])
            /\ Goto(c, "raised")
       ELSE /\ SetLocal(c, [Local(c) EXCEPT
                               !.box = <<GetBoundingBox(Local(c).lat, Local(c).radius_m)>>])
            /\ Goto(c, "with_lock")
    /\ UNCHANGED <<locks, conn, asked, served>>

\* "with self._lock:"
ClientAcquire(c) ==
    /\ lpc[c] = "with_lock"
    /\ Acquire("dataset", c)
    /\ Goto(c, "get_connection")
    /\ UNCHANGED <<frame, conn, asked, served>>

\* "conn = self._get_connection()": the thread's own connection, created
\* on its first call
ClientGetConnection(c) ==
    /\ lpc[c] = "get_connection"
    /\ conn' = conn \cup {c}
    /\ Goto(c, "execute")
    /\ UNCHANGED <<locks, frame, asked, served>>

\* "cursor = conn.execute(SELECT ..., (min_lat, max_lat, min_lon, max_lon))"
ClientExecute(c) ==
    /\ lpc[c] = "execute"
    /\ c \in conn
    /\ SetLocal(c, [Local(c) EXCEPT !.cursor = Local(c).box])
    /\ Goto(c, "fetchall")
    /\ UNCHANGED <<locks, conn, asked, served>>

\* "candidates = cursor.fetchall()" and the end of the block
ClientFetchall(c) ==
    /\ lpc[c] = "fetchall"
    /\ SetLocal(c, [Local(c) EXCEPT
                       !.candidates = IF Local(c).cursor = <<>> THEN {}
                                      ELSE {row \in Dataset : Between(Local(c).cursor[1], row)}])
    /\ Release("dataset", c)
    /\ Goto(c, "filter")
    /\ UNCHANGED <<conn, asked, served>>

\* "for row in candidates: ... if distance <= radius_m: results.append(...)"
ClientFilter(c) ==
    /\ lpc[c] = "filter"
    /\ SetLocal(c, [Local(c) EXCEPT
                       !.found = {TrafficLight(row, HaversineDistance(Local(c).lat, row.lat)) :
                                     row \in {r \in Local(c).candidates :
                                                 HaversineDistance(Local(c).lat, r.lat)
                                                     <= Local(c).radius_m}}])
    /\ Goto(c, "sort")
    /\ UNCHANGED <<locks, conn, asked, served>>

\* "results.sort(key=lambda x: x.distance)"
ClientSort(c) ==
    /\ lpc[c] = "sort"
    /\ SetLocal(c, [Local(c) EXCEPT !.results = SortByDistance(Local(c).found)])
    /\ Goto(c, "return")
    /\ UNCHANGED <<locks, conn, asked, served>>

\* "return results", or the ValueError reaching the caller
ClientReturn(c) ==
    /\ lpc[c] \in {"return", "raised"}
    /\ served' = [served EXCEPT ![c] = served[c] + 1]
    /\ asked' = [asked EXCEPT ![c] = NoArgs]
    /\ SetLocal(c, NewFrame(NoArgs))
    /\ Goto(c, "idle")
    /\ UNCHANGED <<locks, conn>>

InitClients ==
    /\ locks = [l \in LockNames |-> "free"]
    /\ lpc = [t \in LockThreads |->
                 IF t = "reader" THEN "readline"
                 ELSE IF t = "poller" THEN "snapshot_with" ELSE "idle"]
    /\ frame = [c \in Clients |-> NewFrame(NoArgs)]
    /\ conn = {}
    /\ asked = [c \in Clients |-> NoArgs]
    /\ served = [c \in Clients |-> 0]

ClientStep(c) ==
    \/ ClientCall(c)
    \/ ClientValidate(c)
    \/ ClientAcquire(c)
    \/ ClientGetConnection(c)
    \/ ClientExecute(c)
    \/ ClientFetchall(c)
    \/ ClientFilter(c)
    \/ ClientSort(c)
    \/ ClientReturn(c)

-----------------------------------------------------------------------------
(* SignalSight (src/signalsight.py): the coordinator, its state queue, the  *)
(* ArduinoInterface and the two producers of updates, the detection thread  *)
(* (src/YOLO_Detection_Model/CNN/cnn_system.py) and the GPS reader thread.  *)
(* The queue is kept as the number of pending updates of each type; the     *)
(* values an update carries are drawn when it is taken.  Confidences are    *)
(* in percent.                                                              *)

\* the defaults of the dataclass SystemState
SystemState ==
    [cv_state |-> "IDLE", cv_confidence |-> 0, cv_fps |-> 0,
     gps_distance |-> 0, gps_speed |-> 0, gps_satellites |-> 0,
     gps_nearby_lights |-> 0, gps_has_fix |-> FALSE,
     arduino_connected |-> FALSE, timestamp |-> 0]

UpdateTypes == {"CV", "GPS"}

\* an empty queue.Queue
EmptyQueue == [t \in UpdateTypes |-> 0]

\* the threads that put updates: the detection thread through
\* CVModule._cv_callback, the GPS reader thread through on_position_update
Producers == {"detection", "gps_reader"}

\* send_state has not been called
NoSend == [called |-> FALSE, returned |-> FALSE, written |-> <<>>,
           raised |-> FALSE]

\* current_state = "IDLE"; missed_frames = 0
NoDetection ==
    [current_state |-> "IDLE", missed_frames |-> 0, detected |-> <<>>]

\* before SignalSight() is constructed
InitCoord ==
    /\ state_queue = EmptyQueue
    /\ system_state = SystemState
    /\ ss_running = FALSE
    /\ loop = "new"
    /\ taken = 0
    /\ arduino = [connected |-> FALSE, no_arduino |-> FALSE, ser |-> "None"]
    /\ last_send = NoSend
    /\ ppc = [p \in Producers |-> "idle"]
    /\ detection = NoDetection

-----------------------------------------------------------------------------
(* The pipeline: a new instance, its caller, its threads and an accessor *)

NoSnap == [ref |-> 0, seen |-> Blank]

\* no direct call has been made
NoProbe == [op |-> "none"]

\* __init__
Init ==
    /\ running = FALSE
    /\ position = 0
    /\ heap = [i \in ObjIds |-> Blank]
    /\ nearby_lights = <<>>
    /\ query_count = 0
    /\ gps_serial = "None"
    /\ arduino_serial = "None"
    /\ db = "None"
    /\ gps_thread = 0
    /\ query_thread = 0
    /\ arduino_port \in BOOLEAN
    /\ on_position \in BOOLEAN
    /\ rpc = [t \in Threads |-> "unborn"]
    /\ rmsg = [t \in Threads |-> NoMsg]
    /\ rspeed = [t \in Threads |-> None]
    /\ rheading = [t \in Threads |-> None]
    /\ rnew = [t \in Threads |-> 0]
    /\ qpc = [t \in Threads |-> "unborn"]
    /\ qpos = [t \in Threads |-> 0]
    /\ alerts = 0
    /\ cpc = "idle"
    /\ cret = "none"
    /\ cin = "none"
    /\ craised = FALSE
    /\ starts = 0
    /\ calls = 0
    /\ stopped = FALSE
    /\ snap = NoSnap
    /\ probe = NoProbe
    /\ InitClients
    /\ InitCoord

\* (in the lifecycle specification a read that raises is not told apart from
\* a read that returns nothing; the running specification tells them apart)
ReaderStep(t) ==
    \/ ReaderLoopTest(t)
    \/ ReaderSerialClosed(t)
    \/ ReaderSkip(t)
    \/ ReaderParsed(t, LifeFrames)
    \/ ProcessGgaRead(t)
    \/ ProcessGgaPublish(t)
    \/ ProcessGgaCallback(t)
    \/ ProcessGgaCallbackCaught(t)

PollerStep(t) ==
    \/ PollerLoopTest(t)
    \/ PollerSnapshot(t)
    \/ PollerQuery(t)

CallerStep ==
    \/ StartOpenDb
    \/ StartOpenGps
    \/ StartOpenArduino
    \/ StartLaunch
    \/ StopClearFlag
    \/ StopJoinGps
    \/ StopJoinQuery
    \/ StopCloseGps
    \/ StopCloseArduino
    \/ StopCloseDb

Next ==
    \/ StartRefused
    \/ StartBegin
    \/ StopCall
    \/ CallerStep
    \/ \E t \in Threads : ReaderStep(t)
    \/ \E t \in Threads : PollerStep(t)

Spec == Init /\ [][Next]_vars

\* Scheduling: a thread that can take a step eventually takes one, and a call
\* in progress eventually goes on
SpecLive ==
    /\ Init
    /\ [][Next]_vars
    /\ \A t \in Threads : WF_vars(ReaderStep(t))
    /\ \A t \in Threads : WF_vars(PollerStep(t))
    /\ WF_vars(CallerStep)

-----------------------------------------------------------------------------
(* The position specification: a started pipeline, its reader thread and an  *)
(* accessor.                                                                *)

\* the state start() leaves when it returns True on a new instance
InitFix ==
    /\ running = TRUE
    /\ position = 0
    /\ heap = [i \in ObjIds |-> Blank]
    /\ nearby_lights = <<>>
    /\ query_count = 0
    /\ gps_serial = "open"
    /\ arduino_port = TRUE
    /\ arduino_serial = "open"
    /\ db = "open"
    /\ gps_thread = 1
    /\ query_thread = 1
    /\ on_position \in BOOLEAN
    /\ rpc = [t \in Threads |-> IF t = 1 THEN "loop" ELSE "unborn"]
    /\ rmsg = [t \in Threads |-> NoMsg]
    /\ rspeed = [t \in Threads |-> None]
    /\ rheading = [t \in Threads |-> None]
    /\ rnew = [t \in Threads |-> 0]
    /\ qpc = [t \in Threads |-> IF t = 1 THEN "loop" ELSE "unborn"]
    /\ qpos = [t \in Threads |-> 0]
    /\ alerts = 0
    /\ cpc = "idle"
    /\ cret = "true"
    /\ cin = "start"
    /\ craised = FALSE
    /\ starts = 1
    /\ calls = 1
    /\ stopped = FALSE
    /\ snap = NoSnap
    /\ probe = NoProbe
    /\ InitClients
    /\ InitCoord

NextFix ==
    \/ \E t \in Threads : ReaderLoopTest(t)
    \/ \E t \in Threads : ReaderSkip(t)
    \/ \E t \in Threads : ReaderParsed(t, FixFrames)
    \/ \E t \in Threads : ProcessGgaRead(t)
    \/ \E t \in Threads : ProcessGgaPublish(t)
    \/ \E t \in Threads : ProcessGgaCallback(t)
    \/ \E t \in Threads : ProcessGgaCallbackCaught(t)
    \/ \E t \in Threads : ProcessVtg(t)
    \/ GetCurrentPosition

SpecFix == InitFix /\ [][NextFix]_vars

\* the reader with the lines it drops kept apart, statement by statement
NextLines ==
    \/ NextFix
    \/ \E t \in Threads : ReaderReadLine(t)
    \/ \E t \in Threads : ReaderContinue(t)

SpecLines == InitFix /\ [][NextLines]_vars

\* the lifecycle together with what can interrupt the sensor: a position
\* frame of quality 0 (signal lost) and a read that raises
LostFrames == {GGA(LatNext, LonHome, Some(0), Some(70), Some(8))}

\* the reader of an instance without position callback
ReaderStepNoCallback(t) ==
    \/ ReaderLoopTest(t)
    \/ ReaderSerialClosed(t)
    \/ ReaderSkip(t)
    \/ ReaderParsed(t, LifeFrames \cup LostFrames)
    \/ ProcessGgaRead(t)
    \/ ProcessGgaPublish(t)
    \/ ReaderReadRaises(t)
    \/ ReaderHandlerDone(t)

NextWhole ==
    \/ StartRefused
    \/ StartBegin
    \/ StopCall
    \/ CallerStep
    \/ \E t \in Threads : ReaderStepNoCallback(t)
    \/ \E t \in Threads : PollerStep(t)
    \/ GetCurrentPosition

\* an instance without actuator port and without position callback
InitWhole == Init /\ ~arduino_port /\ ~on_position

SpecWhole == InitWhole /\ [][NextWhole]_vars

-----------------------------------------------------------------------------
(* The running specification: a started pipeline, its reader and poller     *)
(* threads with position and velocity frames, and stop().                   *)

\* the frames of the running specification
RunFrames ==
    { GGA(LatHome, LonHome, Some(1), Some(70), Some(8)),
      VTG(Some(36), Some(180)) }

NextRun ==
    \/ \E t \in Threads : ReaderLoopTest(t)
    \/ \E t \in Threads : ReaderSerialClosed(t)
    \/ \E t \in Threads : ReaderReadRaises(t)
    \/ \E t \in Threads : ReaderHandlerDone(t)
    \/ \E t \in Threads : ReaderSkip(t)
    \/ \E t \in Threads : ReaderParsed(t, RunFrames)
    \/ \E t \in Threads : ProcessGgaRead(t)
    \/ \E t \in Threads : ProcessGgaPublish(t)
    \/ \E t \in Threads : ProcessGgaCallback(t)
    \/ \E t \in Threads : ProcessGgaCallbackCaught(t)
    \/ \E t \in Threads : ProcessVtg(t)
    \/ \E t \in Threads : PollerStep(t)
    \/ StopCall
    \/ StopClearFlag
    \/ StopJoinGps
    \/ StopJoinQuery
    \/ StopCloseGps
    \/ StopCloseArduino
    \/ StopCloseDb

SpecRun == InitFix /\ [][NextRun]_vars

-----------------------------------------------------------------------------
(* The query specification: an external caller calls _get_distance_zone,    *)
(* _get_bounding_box and get_nearby_lights_fast directly, with inputs drawn *)
(* from the sets below.                                                     *)

\* every variable of the pipeline
pipelineVars ==
    <<running, position, heap, nearby_lights, query_count, gps_serial,
      arduino_serial, db, gps_thread, query_thread, arduino_port,
      on_position, rpc, rmsg, rspeed, rheading, rnew, qpc, qpos, alerts,
      cpc, cret, cin, craised, starts, calls, stopped, snap>>

\* distances in cm: every 2.5 m up to 300 m, and the centimetre on each side
\* of the zone limits
ZoneDistances ==
    {250 * k : k \in 0..120}
        \cup {ZONE_IMMINENT - 1, ZONE_IMMINENT + 1, ZONE_NEAR - 1, ZONE_NEAR + 1,
              ZONE_APPROACHING - 1, ZONE_APPROACHING + 1}

\* query points of the meridian, up to 60 units (667 m) on each side of
\* record 1
MaxOffset == 60
QueryLats == (450000 - MaxOffset)..(450000 + MaxOffset)

\* radii in cm: 400 m, 500 m, 500.5 m and 600 m
QueryRadii == {40000, 50000, 50050, 60000}

\* headings and cone half-widths, in degrees
QueryHeadings == {0, 90, 180, 270}
QueryCones == {15, 45, 90}

\* self._get_distance_zone(distance_m)
DirectZone ==
    /\ probe = NoProbe
    /\ \E d \in ZoneDistances :
          probe' = [op |-> "_get_distance_zone", distance_m |-> d,
                    returned |-> GetDistanceZone(d)]
    /\ UNCHANGED pipelineVars
    /\ UNCHANGED <<clientVars, coordVars>>

\* db._get_bounding_box(lat, lon, radius_m)
DirectBoundingBox ==
    /\ probe = NoProbe
    /\ \E lat \in QueryLats, radius \in QueryRadii :
          probe' = [op |-> "_get_bounding_box", lat |-> lat, radius_m |-> radius,
                    returned |-> GetBoundingBox(lat, radius)]
    /\ UNCHANGED pipelineVars
    /\ UNCHANGED <<clientVars, coordVars>>

\* db.get_nearby_lights_fast(lat, lon, radius_m); radius 0 is the invalid input
DirectQuery ==
    /\ probe = NoProbe
    /\ \E lat \in QueryLats, radius \in QueryRadii \cup {0} :
          LET call == CallGetNearbyLightsFast(lat, radius, {})
          IN probe' = [op |-> "get_nearby_lights_fast", lat |-> lat,
                       radius_m |-> radius, heading |-> None, heading_cone |-> None,
                       raised |-> call.raised, returned |-> call.lights]
    /\ UNCHANGED pipelineVars
    /\ UNCHANGED <<clientVars, coordVars>>

\* db.get_nearby_lights_fast(lat, lon, radius_m, heading=h, heading_cone=c),
\* the call of test_heading_filter.py and of _query_loop
DirectQueryHeading ==
    /\ probe = NoProbe
    /\ \E lat \in QueryLats, radius \in QueryRadii,
          h \in QueryHeadings, c \in QueryCones :
          LET call == CallGetNearbyLightsFast(lat, radius, QueryLoopKeywords)
          IN probe' = [op |-> "get_nearby_lights_fast", lat |-> lat,
                       radius_m |-> radius, heading |-> Some(h),
                       heading_cone |-> Some(c),
                       raised |-> call.raised, returned |-> call.lights]
    /\ UNCHANGED pipelineVars
    /\ UNCHANGED <<clientVars, coordVars>>

\* ---- lines written to the actuator channel ----

\* one field of a formatted line: the expression the f-string formats and
\* the value whose text it writes
Field(from, text) == [from |-> from, text |-> text]

\* the "\n" that ends the f-string
Newline == Field("literal", "\n")

\* f"{x:.1f}" of a distance held in centimetres: metres rounded to one
\* decimal, written here as a whole number of decimetres
FormatTenths(cm) == (cm + 5) \div 10

AlertMessageUnterminatedMutant(alert) ==
    <<Field("literal", "LIGHT"), Field("light_id", alert.light_id),
      Field("distance_m", FormatTenths(alert.distance_m)),
      Field("zone", alert.zone)>>

\* f"LIGHT,{alert.light_id},{alert.distance_m:.1f},{alert.zone}\n"
AlertMessage(alert) ==
    <<Field("literal", "LIGHT"), Field("light_id", alert.light_id),
      Field("distance_m", FormatTenths(alert.distance_m)),
      Field("zone", alert.zone), Newline>>

\* f"DIST,{distance_m:.1f}\n"
DistanceMessage(distance_m) ==
    <<Field("literal", "DIST"), Field("distance_m", FormatTenths(distance_m)),
      Newline>>

\* f"{state},{distance},{speed}\n"
StateMessage(state, distance, speed) ==
    <<Field("state", state), Field("distance", distance),
      Field("speed", speed), Newline>>

\* the three values of self._arduino_serial: None, a closed port, an open port
Channels == {"None", "closed", "open"}

\* a write to an open port; nothing is written when the port is missing or
\* closed, or when write() raises SerialException, which the sender catches
SerialWrite(chan, raises, message) ==
    IF chan # "open" \/ raises THEN <<>> ELSE <<message>>

ProximityAlert(light_id, distance_m) ==
    [light_id |-> light_id, distance_m |-> distance_m,
     zone |-> GetDistanceZone(distance_m)]

\* ArduinoInterface.send_state: False and nothing written when the
\* interface is not connected or the write raises
SendState(connected, raises, state, distance, speed) ==
    IF ~connected THEN [returned |-> FALSE, written |-> <<>>]
    ELSE IF raises THEN [returned |-> FALSE, written |-> <<>>]
    ELSE [returned |-> TRUE, written |-> <<StateMessage(state, distance, speed)>>]

CvStates == {"IDLE", "ACTIVE_RED", "ACTIVE_YELLOW", "ACTIVE_GREEN"}
GpsDistances == {0, 45, 120}
GpsSpeeds == {0, 60}

SystemStates ==
    [cv_state : CvStates, gps_distance : GpsDistances, gps_speed : GpsSpeeds]

\* what state_queue.get(timeout=0.1) hands the coordinator: nothing
\* (queue.Empty), a CV update or a GPS update
Updates ==
    {[type |-> "Empty"]}
        \cup {[type |-> "CV", state |-> s] : s \in CvStates}
        \cup {[type |-> "GPS", distance |-> d, speed |-> v] :
                 d \in GpsDistances, v \in GpsSpeeds}

ApplyUpdate(s, u) ==
    IF u.type = "CV" THEN [s EXCEPT !.cv_state = u.state]
    ELSE IF u.type = "GPS"
    THEN [s EXCEPT !.gps_distance = u.distance, !.gps_speed = u.speed]
    ELSE s

\* self._send_arduino_alert(alert)
DirectSendAlert ==
    /\ probe = NoProbe
    /\ \E chan \in Channels, raises \in BOOLEAN, id \in {r.id : r \in Dataset},
          d \in ZoneDistances :
          LET alert == ProximityAlert(id, d)
          IN probe' = [op |-> "_send_arduino_alert", channel |-> chan,
                       alert |-> alert,
                       written |-> SerialWrite(chan, raises, AlertMessage(alert))]
    /\ UNCHANGED pipelineVars
    /\ UNCHANGED <<clientVars, coordVars>>

\* self.send_distance_to_arduino(distance_m)
DirectSendDistance ==
    /\ probe = NoProbe
    /\ \E chan \in Channels, raises \in BOOLEAN, d \in ZoneDistances :
          probe' = [op |-> "send_distance_to_arduino", channel |-> chan,
                    distance_m |-> d,
                    written |-> SerialWrite(chan, raises, DistanceMessage(d))]
    /\ UNCHANGED pipelineVars
    /\ UNCHANGED <<clientVars, coordVars>>

\* one round of SignalSight._coordination_loop: at most one update taken
\* from the queue, then the state sent
DirectCoordination ==
    /\ probe = NoProbe
    /\ \E s \in SystemStates, u \in Updates, connected \in BOOLEAN,
          raises \in BOOLEAN :
          LET after == ApplyUpdate(s, u)
              sent == SendState(connected, raises, after.cv_state,
                                after.gps_distance, after.gps_speed)
          IN probe' = [op |-> "_coordination_loop", before |-> s,
                       update |-> u, after |-> after,
                       returned |-> sent.returned, written |-> sent.written]
    /\ UNCHANGED pipelineVars
    /\ UNCHANGED <<clientVars, coordVars>>

\* ---- TrafficLightDB.__init__ ----

\* the file at db_path: whether it exists, whether SQLite can read it (an
\* empty file is a database without tables), whether it has a table named
\* traffic_lights, and whether that table has the columns id, lat, lon
DatasetFile(exists, sqlite, table, columns) ==
    [exists |-> exists, sqlite |-> sqlite, table |-> table, columns |-> columns]

DatasetFiles ==
    { DatasetFile(FALSE, FALSE, FALSE, FALSE),
      DatasetFile(TRUE, FALSE, FALSE, FALSE),
      DatasetFile(TRUE, TRUE, FALSE, FALSE),
      DatasetFile(TRUE, TRUE, TRUE, FALSE),
      DatasetFile(TRUE, TRUE, TRUE, TRUE) }

\* sqlite3.connect followed by the PRAGMA statements: the first statement
\* on a file that is not a database raises
GetConnection(file) ==
    IF file.sqlite THEN "none" ELSE "DatabaseError"

\* the constructor: the exception it raises ("none": an index is returned)
\* and whether a file exists at db_path afterwards
Construct(file) ==
    IF ~file.exists
    THEN [raised |-> "FileNotFoundError", exists |-> FALSE]
    ELSE IF GetConnection(file) # "none"
    THEN [raised |-> GetConnection(file), exists |-> TRUE]
    ELSE IF ~file.table
    THEN [raised |-> "ValueError", exists |-> TRUE]
    ELSE [raised |-> "none", exists |-> TRUE]

\* the SELECT of id, lat, lon of a query on a constructed index
SelectRaises(file) ==
    IF file.columns THEN "none" ELSE "OperationalError"

\* TrafficLightDB(db_path), then one query on the index if one is returned
DirectConstruct ==
    /\ probe = NoProbe
    /\ \E file \in DatasetFiles :
          LET made == Construct(file)
          IN probe' = [op |-> "__init__", file |-> file,
                       raised |-> made.raised, exists |-> made.exists,
                       query_raised |-> IF made.raised = "none"
                                        THEN SelectRaises(file) ELSE "no index"]
    /\ UNCHANGED pipelineVars
    /\ UNCHANGED <<clientVars, coordVars>>

\* the caller has used the result; its next call is independent of this one,
\* the functions keeping no state
DirectDone ==
    /\ probe # NoProbe
    /\ probe' = NoProbe
    /\ UNCHANGED pipelineVars
    /\ UNCHANGED <<clientVars, coordVars>>

NextDb ==
    \/ DirectDone
    \/ DirectZone
    \/ DirectBoundingBox
    \/ DirectQuery
    \/ DirectQueryHeading
    \/ DirectSendAlert
    \/ DirectSendDistance
    \/ DirectCoordination
    \/ DirectConstruct

SpecDb == Init /\ [][NextDb]_vars

\* ---- the database under concurrent clients ----

\* the clients of one TrafficLightDB, in every interleaving of their steps
NextConc ==
    /\ \E c \in Clients : ClientStep(c)
    /\ UNCHANGED pipelineVars
    /\ UNCHANGED probe
    /\ UNCHANGED coordVars

SpecConc == Init /\ [][NextConc]_vars

\* ---- the three locks ----

LockReaderStep ==
    \/ LockReaderReadline
    \/ LockReaderHandler
    \/ LockGgaEnterOld
    \/ LockGgaReadOld
    \/ LockGgaBuild
    \/ LockGgaEnterNew
    \/ LockGgaPublish
    \/ LockCallbackEnter
    \/ LockCallbackReturn
    \/ LockGgaCallback
    \/ LockVtgEnter
    \/ LockVtgUpdate

LockPollerStep ==
    \/ LockPollerEnter
    \/ LockPollerSnapshot
    \/ LockPollerQuery
    \/ LockPollerHandler

LockAccessorStep ==
    \/ LockAccessorEnter
    \/ LockAccessorReturn

NextLock ==
    /\ \/ LockReaderStep
       \/ LockPollerStep
       \/ LockAccessorStep
       \/ ClientStep("a")
    /\ UNCHANGED pipelineVars
    /\ UNCHANGED probe
    /\ UNCHANGED coordVars

SpecLock == InitFix /\ [][NextLock]_vars

\* ---- the accessors of the stored result list, called while the pipeline runs ----

GetClosestLightUnguardedMutant(lights) ==
    IF lights = <<>> THEN [raised |-> "IndexError", returned |-> None]
    ELSE [raised |-> "none", returned |-> Some(lights[1])]

\* "return self._nearby_lights[0] if self._nearby_lights else None"
GetClosestLight(lights) ==
    IF lights # <<>> THEN [raised |-> "none", returned |-> Some(lights[1])]
    ELSE [raised |-> "none", returned |-> None]

\* "closest is not None and closest.distance <= threshold_m"
IsApproachingLight(closest, threshold_m) ==
    closest # None /\ closest[1].distance <= threshold_m

\* thresholds passed to is_approaching_light, in cm: the default 100 m, and
\* the search radius
Thresholds == {ZONE_NEAR, SearchRadius}

\* self.get_closest_light(), under self._lock
DirectClosest ==
    /\ probe = NoProbe
    /\ LET got == GetClosestLight(nearby_lights)
       IN probe' = [op |-> "get_closest_light", stored |-> nearby_lights,
                    raised |-> got.raised, returned |-> got.returned]
    /\ UNCHANGED pipelineVars
    /\ UNCHANGED <<clientVars, coordVars>>

\* self.is_approaching_light(threshold_m)
DirectApproaching ==
    /\ probe = NoProbe
    /\ \E threshold \in Thresholds :
          LET got == GetClosestLight(nearby_lights)
          IN probe' = [op |-> "is_approaching_light", stored |-> nearby_lights,
                       threshold_m |-> threshold, raised |-> got.raised,
                       returned |-> IF got.raised = "none"
                                    THEN IsApproachingLight(got.returned, threshold)
                                    ELSE FALSE]
    /\ UNCHANGED pipelineVars
    /\ UNCHANGED <<clientVars, coordVars>>

\* get_stats() takes no lock and evaluates self._nearby_lights three times:
\* in len(...), in the test of the conditional expression, and in [0]
StatsBegin ==
    /\ probe = NoProbe
    /\ probe' = [op |-> "get_stats", at |-> "len", nearby_lights |-> 0,
                 nonempty |-> FALSE, closest_distance |-> None, raised |-> "none"]
    /\ UNCHANGED pipelineVars
    /\ UNCHANGED <<clientVars, coordVars>>

\* "'nearby_lights': len(self._nearby_lights)"
StatsLen ==
    /\ probe.op = "get_stats" /\ probe.at = "len"
    /\ probe' = [probe EXCEPT !.at = "test", !.nearby_lights = Len(nearby_lights)]
    /\ UNCHANGED pipelineVars
    /\ UNCHANGED <<clientVars, coordVars>>

\* "... if self._nearby_lights else None": the test
StatsTest ==
    /\ probe.op = "get_stats" /\ probe.at = "test"
    /\ probe' = [probe EXCEPT !.at = "index", !.nonempty = (nearby_lights # <<>>)]
    /\ UNCHANGED pipelineVars
    /\ UNCHANGED <<clientVars, coordVars>>

\* "self._nearby_lights[0].distance" when the test was true, None otherwise;
\* the dict is returned
StatsIndex ==
    /\ probe.op = "get_stats" /\ probe.at = "index"
    /\ probe' = IF ~probe.nonempty THEN [probe EXCEPT !.at = "returned"]
                ELSE IF nearby_lights = <<>>
                THEN [probe EXCEPT !.at = "returned", !.raised = "IndexError"]
                ELSE [probe EXCEPT !.at = "returned",
                                   !.closest_distance = Some(nearby_lights[1].distance)]
    /\ UNCHANGED pipelineVars
    /\ UNCHANGED <<clientVars, coordVars>>

\* the caller is done with what an accessor returned
AccessorDone ==
    /\ probe.op \in {"get_closest_light", "is_approaching_light"}
          \/ (probe.op = "get_stats" /\ probe.at = "returned")
    /\ probe' = NoProbe
    /\ UNCHANGED pipelineVars
    /\ UNCHANGED <<clientVars, coordVars>>

NextAccess ==
    \/ NextRun
    \/ DirectClosest
    \/ DirectApproaching
    \/ StatsBegin
    \/ StatsLen
    \/ StatsTest
    \/ StatsIndex
    \/ AccessorDone

SpecAccess == InitFix /\ [][NextAccess]_vars

-----------------------------------------------------------------------------
(* SignalSight: the state queue, its producers, the coordination loop and   *)
(* the ArduinoInterface.                                                    *)

\* self.state_queue = queue.Queue(maxsize=100)
maxsize == 100

\* Queue.qsize()
Qsize(q) == q["CV"] + q["GPS"]

PutNowaitUnboundedMutant(q, type) ==
    [raised |-> "none", queue |-> [q EXCEPT ![type] = @ + 1]]

\* Queue.put_nowait(item): queue.Full when maxsize items are pending,
\* without waiting
PutNowait(q, type) ==
    IF Qsize(q) >= maxsize THEN [raised |-> "Full", queue |-> q]
    ELSE [raised |-> "none", queue |-> [q EXCEPT ![type] = @ + 1]]

\* the type of update each producer puts
UpdateOf(p) == IF p = "detection" THEN "CV" ELSE "GPS"

\* "except queue.Full: pass" of both callbacks
Caught(raised) == raised \in {"none", "Full"}

\* the values a CV update carries: 'state', 'confidence', 'fps'
CvUpdates ==
    {[type |-> "CV", state |-> "ACTIVE_RED", confidence |-> 90, fps |-> 30]}

\* the values a GPS update carries: 'distance', 'speed', 'satellites',
\* 'nearby_lights', 'has_fix'
GpsUpdates ==
    {[type |-> "GPS", distance |-> 0, speed |-> 60, satellites |-> 8,
      nearby_lights |-> 0, has_fix |-> TRUE]}

\* time.time(): a time after the default 0.0 of SystemState.timestamp
Times == {1}

\* the body of "update = self.state_queue.get(timeout=0.1)" up to
\* "self.system_state.timestamp = time.time()"
CoordinationApply(s, u, now) ==
    LET a == IF u.type = "CV"
             THEN [s EXCEPT !.cv_state = u.state,
                            !.cv_confidence = u.confidence,
                            !.cv_fps = u.fps]
             ELSE IF u.type = "GPS"
             THEN [s EXCEPT !.gps_distance = u.distance,
                            !.gps_speed = u.speed,
                            !.gps_satellites = u.satellites,
                            !.gps_nearby_lights = u.nearby_lights,
                            !.gps_has_fix = u.has_fix]
             ELSE s
    IN [a EXCEPT !.timestamp = now]

AfterGetDrainMutant(pc) == "get"

\* after the one get() of an iteration the loop goes on to send_state
AfterGet(pc) == "send"

\* ArduinoInterface.__init__ and _connect
ArduinoInit(no_arduino, opens) ==
    [no_arduino |-> no_arduino,
     ser |-> IF ~no_arduino /\ opens THEN "open" ELSE "None",
     connected |-> ~no_arduino /\ opens]

AfterWriteErrorKeptMutant(connected) == connected

\* "except Exception as e: ... self.connected = False"
AfterWriteError(connected) == FALSE

\* ArduinoInterface.send_state
ArduinoSendState(a, raises, state, distance, speed) ==
    IF ~a.connected \/ a.ser = "None" \/ a.no_arduino
    THEN [arduino |-> a,
          result |-> [called |-> TRUE, returned |-> FALSE, written |-> <<>>,
                      raised |-> FALSE]]
    ELSE IF raises
    THEN [arduino |-> [a EXCEPT !.connected = AfterWriteError(a.connected)],
          result |-> [called |-> TRUE, returned |-> FALSE, written |-> <<>>,
                      raised |-> TRUE]]
    ELSE [arduino |-> a,
          result |-> [called |-> TRUE, returned |-> TRUE,
                      written |-> <<StateMessage(state, distance, speed)>>,
                      raised |-> FALSE]]

\* SignalSight.__init__
SignalSightInit(no_arduinos) ==
    /\ loop = "new"
    /\ \E no_arduino \in no_arduinos, opens \in BOOLEAN :
          LET a == ArduinoInit(no_arduino, opens)
          IN /\ arduino' = a
             /\ system_state' = [SystemState EXCEPT
                                    !.arduino_connected = a.connected]
    /\ state_queue' = EmptyQueue
    /\ ss_running' = FALSE
    /\ loop' = "constructed"
    /\ UNCHANGED <<taken, last_send, ppc, detection>>

\* SignalSight.start up to the call of _coordination_loop
SignalSightStart ==
    /\ loop = "constructed"
    /\ ss_running' = TRUE
    /\ ppc' = [p \in Producers |-> "loop"]
    /\ loop' = "test"
    /\ UNCHANGED <<state_queue, system_state, taken, arduino, last_send,
                   detection>>

\* the GPS reader thread calls on_position_update(position)
ProducerCalls(p) ==
    /\ ppc[p] = "loop"
    /\ ppc' = [ppc EXCEPT ![p] = "callback"]
    /\ UNCHANGED <<state_queue, system_state, ss_running, loop, taken,
                   arduino, last_send, detection>>

\* _cv_callback and on_position_update: put_nowait, and return
ProducerPuts(p) ==
    /\ ppc[p] = "callback"
    /\ LET r == PutNowait(state_queue, UpdateOf(p))
       IN /\ state_queue' = r.queue
          /\ ppc' = [ppc EXCEPT ![p] = IF Caught(r.raised) THEN "loop"
                                        ELSE "dead"]
    /\ UNCHANGED <<system_state, ss_running, loop, taken, arduino, last_send,
                   detection>>

\* "while self.running:"
CoordinationTest ==
    /\ loop = "test"
    /\ IF ss_running THEN loop' = "get" /\ taken' = 0
       ELSE loop' = "returned" /\ taken' = taken
    /\ UNCHANGED <<state_queue, system_state, ss_running, arduino, last_send,
                   ppc, detection>>

\* "update = self.state_queue.get(timeout=0.1)" with its branches, or
\* queue.Empty when nothing arrives within the timeout
CoordinationGet ==
    /\ loop = "get"
    /\ \/ /\ Qsize(state_queue) = 0
          /\ UNCHANGED <<state_queue, system_state, taken>>
       \/ \E u \in CvUpdates \cup GpsUpdates, now \in Times :
             /\ state_queue[u.type] > 0
             /\ now >= system_state.timestamp
             /\ state_queue' = [state_queue EXCEPT ![u.type] = @ - 1]
             /\ system_state' = CoordinationApply(system_state, u, now)
             /\ taken' = taken + 1
    /\ loop' = AfterGet(loop)
    /\ UNCHANGED <<ss_running, arduino, last_send, ppc, detection>>

\* "self.arduino.send_state(cv_state, gps_distance, gps_speed)" and
\* "time.sleep(0.05)"
CoordinationSend ==
    /\ loop = "send"
    /\ \E raises \in BOOLEAN :
          LET r == ArduinoSendState(arduino, raises, system_state.cv_state,
                                    system_state.gps_distance,
                                    system_state.gps_speed)
          IN /\ arduino' = r.arduino
             /\ last_send' = r.result
    /\ loop' = "test"
    /\ UNCHANGED <<state_queue, system_state, ss_running, taken, ppc,
                   detection>>

\* _signal_handler: stop() and sys.exit(0)
SignalSightStop ==
    /\ loop \in {"test", "get", "send"}
    /\ ss_running' = FALSE
    /\ arduino' = [arduino EXCEPT !.ser = IF @ = "open" THEN "closed" ELSE @]
    /\ ppc' = [p \in Producers |-> "stopped"]
    /\ loop' = "exited"
    /\ UNCHANGED <<state_queue, system_state, taken, last_send, detection>>

\* ---- live_traffic_light_detection (cnn_system.py) ----

CLASS_TO_ARDUINO ==
    [red |-> "ACTIVE_RED", yellow |-> "ACTIVE_YELLOW", green |-> "ACTIVE_GREEN"]

CLASS_PRIORITY == [red |-> 3, yellow |-> 2, green |-> 1]

MAX_MISSED_FRAMES == 3

\* model.names: the classes the network reports
ClassNames == {"red", "yellow", "green", "off"}

\* scores that pass conf=CONF_THRESHOLD, in percent
Confidences == {60, 90}

\* the boxes of one frame, as (class_name, score), in the order reported
Frames ==
    UNION {[1..n -> ClassNames \X Confidences] : n \in 0..MaxBoxes}

\* frames of a red light
RedFrames == {<< <<"red", 90>> >>}

\* "if class_name in CLASS_TO_ARDUINO: detected.append((class_name, score))"
Detected(boxes) ==
    SelectSeq(boxes, LAMBDA b : b[1] \in DOMAIN CLASS_TO_ARDUINO)

KeyConfidenceFirstMutant(x) == <<x[2], CLASS_PRIORITY[x[1]]>>

\* key=lambda x: (CLASS_PRIORITY[x[0]], x[1])
Key(x) == <<CLASS_PRIORITY[x[1]], x[2]>>

\* the order of Python tuples of two numbers
TupleLess(a, b) == a[1] < b[1] \/ (a[1] = b[1] /\ a[2] < b[2])

RECURSIVE MaxFrom(_, _)
\* max(detected, key=...): the first of the elements with the greatest key
MaxFrom(best, rest) ==
    IF rest = <<>> THEN best
    ELSE MaxFrom(IF TupleLess(Key(best), Key(Head(rest))) THEN Head(rest)
                 ELSE best,
                 Tail(rest))

\* the STATE MACHINE block: the new current_state and missed_frames
StateMachine(current_state, missed_frames, detected) ==
    IF detected # <<>>
    THEN [missed_frames |-> 0,
          current_state |->
              CLASS_TO_ARDUINO[MaxFrom(Head(detected), Tail(detected))[1]]]
    ELSE [missed_frames |-> missed_frames + 1,
          current_state |-> IF missed_frames + 1 >= MAX_MISSED_FRAMES
                            THEN "IDLE" ELSE current_state]

\* one iteration of the detection loop up to the call of state_callback
DetectFrame(frames) ==
    /\ ppc["detection"] = "loop"
    /\ \E boxes \in frames :
          LET d == Detected(boxes)
              n == StateMachine(detection.current_state,
                                detection.missed_frames, d)
          IN /\ d = <<>> => detection.missed_frames < MaxMissed
             /\ detection' = [current_state |-> n.current_state,
                              missed_frames |-> n.missed_frames,
                              detected |-> d]
    /\ ppc' = [ppc EXCEPT !["detection"] = "callback"]
    /\ UNCHANGED <<state_queue, system_state, ss_running, loop, taken,
                   arduino, last_send>>

\* ---- the specifications of the coordinator ----

\* a run with --no-arduino: both producers and the coordination loop
NextQueue ==
    /\ \/ SignalSightInit({TRUE})
       \/ SignalSightStart
       \/ DetectFrame(RedFrames)
       \/ ProducerCalls("gps_reader")
       \/ \E p \in Producers : ProducerPuts(p)
       \/ CoordinationTest
       \/ CoordinationGet
       \/ CoordinationSend
       \/ SignalSightStop
    /\ UNCHANGED pipelineVars
    /\ UNCHANGED probe
    /\ UNCHANGED clientVars

SpecQueue == InitFix /\ [][NextQueue]_vars

\* a run with or without an actuator: the detection thread and the
\* coordination loop
NextArduino ==
    /\ \/ SignalSightInit(BOOLEAN)
       \/ SignalSightStart
       \/ DetectFrame(RedFrames)
       \/ ProducerPuts("detection")
       \/ CoordinationTest
       \/ CoordinationGet
       \/ CoordinationSend
       \/ SignalSightStop
    /\ UNCHANGED pipelineVars
    /\ UNCHANGED probe
    /\ UNCHANGED clientVars

SpecArduino == InitFix /\ [][NextArduino]_vars

\* the detection thread with every frame
NextDetect ==
    /\ \/ SignalSightInit({TRUE})
       \/ SignalSightStart
       \/ DetectFrame(Frames)
       \/ ProducerPuts("detection")
    /\ UNCHANGED pipelineVars
    /\ UNCHANGED probe
    /\ UNCHANGED clientVars

SpecDetect == InitFix /\ [][NextDetect]_vars


-----------------------------------------------------------------------------
(* Properties of the published Fix (checked under SpecFix) *)

\* what the claims say of a frame: its quality indicator
QualityIsZero(msg) == msg.kind = "GGA" /\ msg.gps_qual = Some(0)
QualityIsPositive(msg) == msg.kind = "GGA" /\ msg.gps_qual # None /\ msg.gps_qual[1] > 0

\* thread t finishes _process_gga_message without publishing
GgaReturnsEarly(t) == rpc[t] = "gga" /\ rpc'[t] = "loop"

\* thread t publishes
GgaPublishes(t) == rpc[t] = "gga_pub" /\ rpc'[t] # "gga_pub"

\* C1: a position frame of quality 0 leaves the published Fix (the reference
\* and every object) as it was, and the published Fix goes from none to a
\* Fix only in the step that publishes a frame of quality > 0: until then
\* get_current_position() returns None.
C1_QualityZeroNeverPublished ==
    [][ /\ \A t \in Threads :
              (rpc[t] = "gga" /\ QualityIsZero(rmsg[t]) /\ rpc'[t] # "gga")
                  => (GgaReturnsEarly(t) /\ position' = position /\ heap' = heap)
        /\ (position = 0 /\ position' # 0)
              => \E t \in Threads : GgaPublishes(t) /\ QualityIsPositive(rmsg[t])
        /\ (position' # 0 => heap'[position'].fix_quality > 0) ]_vars

\* C1 witness: a reader has processed a frame of quality 0 and there is still
\* no Fix
C1_Witness ==
    \E t \in Threads : rpc[t] = "loop" /\ QualityIsZero(rmsg[t]) /\ position = 0

\* C2 (as claimed): every position frame of quality > 0 is published, as a
\* new object with the frame's latitude, longitude, altitude, satellite count
\* and quality and with the previous Fix's speed and heading.
C2_EveryValidFramePublished ==
    [][ \A t \in Threads :
          /\ (rpc[t] = "gga" /\ QualityIsPositive(rmsg[t]) /\ rpc'[t] # "gga")
                => rpc'[t] = "gga_pub"
          /\ GgaPublishes(t)
                => /\ position' # position
                   /\ heap'[position'] =
                        GPSPosition(rmsg[t].latitude, rmsg[t].longitude,
                                    rmsg[t].altitude,
                                    IF position = 0 THEN None ELSE heap[position].speed,
                                    IF position = 0 THEN None ELSE heap[position].heading,
                                    IF rmsg[t].num_sats = None THEN 0 ELSE rmsg[t].num_sats[1],
                                    rmsg[t].gps_qual[1]) ]_vars

\* C3 (as claimed): a velocity frame changes nothing while there is no Fix;
\* otherwise it sets the speed to the frame's km/h divided by 3.6 and the
\* heading to the frame's track, whatever values the frame supplies, and
\* leaves the other fields.
C3_VelocityFrameSetsSpeedAndHeading ==
    [][ \A t \in Threads :
          (rpc[t] = "vtg" /\ rpc'[t] # "vtg")
             => /\ position' = position
                /\ IF position = 0 THEN heap' = heap
                   ELSE heap'[position] =
                          [heap[position] EXCEPT
                             !.speed = IF rmsg[t].spd_over_grnd_kmph = None THEN @
                                       ELSE Some(KmphToMps(rmsg[t].spd_over_grnd_kmph[1])),
                             !.heading = IF rmsg[t].true_track = None THEN @
                                         ELSE rmsg[t].true_track] ]_vars

\* C4 (as claimed): the Fix get_current_position() returned keeps the content
\* it had when the call returned.
C4_SnapshotImmutable == snap.ref # 0 => heap[snap.ref] = snap.seen

-----------------------------------------------------------------------------
(* Properties of start() and stop() (checked under Spec) *)

\* the caller calls start() in this step
StartCalled == calls' = calls + 1 /\ cin' = "start"

Alive(pc) == pc \notin {"unborn", "done"}
NoThreadAlive == \A t \in Threads : ~Alive(rpc[t]) /\ ~Alive(qpc[t])
ChannelsClosed == gps_serial # "open" /\ arduino_serial # "open"

\* C5: start() called while the pipeline is running returns False and
\* changes nothing: no channel, no dataset handle, no thread, the flag stays.
C5_StartWhileRunningRefused ==
    [][ (StartCalled /\ running)
          => /\ cret' = "false_running"
             /\ cpc' = "idle"
             /\ UNCHANGED <<running, channelVars, gps_thread, query_thread,
                            readerVars, pollerVars, starts, position, heap,
                            nearby_lights, query_count>> ]_vars

\* C5 witness: a start() has been refused on a running pipeline
C5_Witness == cpc = "idle" /\ cret = "false_running" /\ running /\ starts = 1

\* a start() has returned False after a failed open and nothing was called since
FailedStartReturned == cpc = "idle" /\ cin = "start" /\ cret = "false_failed"

C7_StopAlwaysSafe ==
    /\ ~craised
    /\ (cpc = "idle" /\ cin = "stop") => (~running /\ ChannelsClosed)

\* C7 witness: stop() has returned twice on a pipeline that was never started
C7_Witness == cpc = "idle" /\ cin = "stop" /\ calls = 2 /\ cret = "none" /\ starts = 0

\* C8 (as claimed): once a stop() has completed after a successful start()
\* the pipeline never runs again.
C8_StoppedIsTerminal == stopped => ~running

\* C8 (amended): start() refuses only while the pipeline is running; called
\* when it is not, after a stop() too, it enters the opening sequence, and
\* when every open has succeeded it sets the flag, launches a new reader and
\* a new poller thread and returns True.
C8_StartAfterStopRuns ==
    [][ /\ (StartCalled /\ ~running) => (cpc' = "s_db" /\ cret' = "none")
        /\ (cpc = "s_run" /\ cpc' # "s_run")
              => /\ running' /\ cret' = "true" /\ cpc' = "idle"
                 /\ gps_thread' # gps_thread /\ query_thread' # query_thread
                 /\ rpc[gps_thread'] = "unborn" /\ rpc'[gps_thread'] = "loop"
                 /\ qpc[query_thread'] = "unborn" /\ qpc'[query_thread'] = "loop" ]_vars

\* C8 witness: the pipeline runs again after a completed stop()
C8_Witness == stopped /\ running /\ cret = "true" /\ starts = 2

-----------------------------------------------------------------------------
(* Properties of the running pipeline in time (checked under SpecLive) *)

\* C9 (as claimed): stopping is eventually effective: a reader or poller
\* thread that is in its loop when the running flag is clear eventually
\* leaves the loop.
C9_ThreadsExitAfterStop ==
    \A t \in Threads :
        /\ (~running /\ Alive(rpc[t])) ~> (rpc[t] = "done")
        /\ (~running /\ Alive(qpc[t])) ~> (qpc[t] = "done")

\* bearing from a point of the meridian to another: north or south
Bearing(lat1, lat2) == IF lat2 >= lat1 THEN 0 ELSE 180

\* smallest angle between two headings
AngularDifference(a, b) ==
    LET d == Abs(a - b) % 360 IN IF d > 180 THEN 360 - d ELSE d

\* self._query_loop's heading_cone
HeadingCone == 90

\* a record lies within the search radius of the Fix and, when the Fix has a
\* heading, within the forward cone
RecordAhead(fix) ==
    \E r \in Dataset :
        /\ HaversineDistance(fix.latitude, r.lat) <= SearchRadius
        /\ fix.heading # None
              => AngularDifference(Bearing(fix.latitude, r.lat), fix.heading[1]) <= HeadingCone

\* C10 (as claimed): when a Fix is published with a record in range and
\* ahead, then while the pipeline keeps running a poll tick eventually stores
\* a non-empty result and dispatches an alert.
C10_FixInRangeLeadsToAlert ==
    (running /\ position # 0 /\ RecordAhead(heap[position]))
        ~> (~running \/ (nearby_lights # <<>> /\ alerts > 0))

-----------------------------------------------------------------------------
(* Properties of a poll tick and of the loops' handlers (checked under      *)
(* SpecRun)                                                                 *)

\* thread t finishes the tick it took a snapshot for
TickEnds(t) == qpc[t] = "query" /\ qpc'[t] # "query"

\* what get_nearby_lights_fast returns for the position of t's snapshot
TickResult(t) == GetNearbyLightsFast(heap[qpos[t]].latitude, SearchRadius)

\* C11 (as claimed): a tick that has a Fix performs its query, counts it and
\* stores its result, which get_nearby_lights() and get_closest_light() then
\* read.
C11_TickCountsAndStores ==
    [][ \A t \in Threads :
          TickEnds(t)
             => /\ query_count < MaxCount => query_count' = query_count + 1
                /\ nearby_lights' = TickResult(t) ]_vars

\* C12 (as claimed): a tick whose query result is non-empty dispatches one
\* alert, a tick whose result is empty dispatches none, and nothing is held
\* back because an earlier tick has alerted.
C12_OneAlertPerNonEmptyTick ==
    [][ \A t \in Threads :
          TickEnds(t)
             => IF TickResult(t) # <<>>
                THEN alerts < MaxCount => alerts' = alerts + 1
                ELSE alerts' = alerts ]_vars

\* C13 (as claimed): between the snapshot of a tick and its query the Fix the
\* arguments are read from keeps the latitude, longitude and heading it had
\* at the snapshot, whatever the reader processes.
C13_TickArgumentsOfOneFix ==
    [][ \A t \in Threads :
          (qpc[t] = "query" /\ qpc'[t] = "query")
             => /\ heap'[qpos[t]].latitude = heap[qpos[t]].latitude
                /\ heap'[qpos[t]].longitude = heap[qpos[t]].longitude
                /\ heap'[qpos[t]].heading = heap[qpos[t]].heading ]_vars

\* a thread ends only by finding the flag clear at its loop test
EndsOnlyAtLoopTest ==
    \A t \in Threads :
        /\ (rpc[t] # "done" /\ rpc'[t] = "done") => (rpc[t] = "loop" /\ ~running)
        /\ (qpc[t] # "done" /\ qpc'[t] = "done") => (qpc[t] = "loop" /\ ~running)

\* C14: an exception of the position callback is caught where the callback is
\* called and the reader goes to its next iteration; the poller's tick goes
\* to the next iteration whatever was raised in it; neither thread ends
\* otherwise than by finding the flag clear.
C14_CallbackErrorStaysInLoop ==
    [][ /\ EndsOnlyAtLoopTest
        /\ \A t \in Threads :
              /\ (rpc[t] = "gga_cb" /\ rpc'[t] # "gga_cb")
                    => rpc'[t] \in {"loop", "cb_except"}
              /\ (rpc[t] = "cb_except" /\ rpc'[t] # "cb_except") => rpc'[t] = "loop"
              /\ TickEnds(t) => qpc'[t] = "loop" ]_vars

\* C14 witness: the position callback has raised in a running pipeline and
\* the exception is in the handler of the call
C14_Witness == \E t \in Threads : rpc[t] = "cb_except" /\ running /\ on_position

\* C15: a read that raises takes the reader to a handler of its loop and from
\* there to the next iteration, which reads again; the reader and the poller
\* end only by finding the flag clear.
C15_IoErrorStaysInLoop ==
    [][ /\ EndsOnlyAtLoopTest
        /\ \A t \in Threads :
              /\ (rpc[t] = "read" /\ rpc'[t] # "read")
                    => rpc'[t] \in {"loop", "gga", "vtg", "serial_except", "other_except"}
              /\ (rpc[t] \in {"serial_except", "other_except"} /\ rpc'[t] # rpc[t])
                    => rpc'[t] = "loop"
              /\ (rpc[t] = "loop" /\ rpc'[t] # "loop" /\ running) => rpc'[t] = "read" ]_vars

\* C15 witness: a read has raised SerialException in a running pipeline
C15_Witness == \E t \in Threads : rpc[t] = "serial_except" /\ running /\ gps_serial = "open"

-----------------------------------------------------------------------------
(* Properties of the zone classification and of the radius query (checked   *)
(* under SpecDb)                                                            *)

\* C16: the zone of a distance is imminent up to 50 m included, near up to
\* 100 m included, approaching up to 250 m included and far beyond.
C16_ZoneBoundaries ==
    probe.op = "_get_distance_zone"
        => probe.returned =
             (IF probe.distance_m <= 50 * 100 THEN "imminent"
              ELSE IF probe.distance_m <= 100 * 100 THEN "near"
              ELSE IF probe.distance_m <= 250 * 100 THEN "approaching"
              ELSE "far")

\* C16 witness: 250.0 m has been classified, as approaching
C16_Witness ==
    probe = [op |-> "_get_distance_zone", distance_m |-> 250 * 100,
             returned |-> "approaching"]

\* the records whose distance to the query point is at most the radius, each
\* with its distance
ExactWithinRadius(lat, radius) ==
    {TrafficLight(row, HaversineDistance(lat, row.lat)) :
        row \in {r \in Dataset : HaversineDistance(lat, r.lat) <= radius}}

\* a query without heading, of a positive radius, has been made
RadiusQueryMade ==
    /\ probe.op = "get_nearby_lights_fast"
    /\ probe.heading = None
    /\ probe.radius_m > 0

\* C17 (as claimed): a query without heading returns exactly the records
\* whose distance to the query point is at most the radius, each once,
\* nearest first.
C17_RadiusQueryExact ==
    RadiusQueryMade
        => /\ probe.raised = "none"
           /\ probe.returned = SortByDistance(ExactWithinRadius(probe.lat, probe.radius_m))

\* C18 (as claimed): no record whose distance to the point is at most the
\* radius lies outside the bounding box computed for the point and the radius.
C18_BoxContainsCircle ==
    probe.op = "_get_bounding_box"
        => \A row \in Dataset :
              HaversineDistance(probe.lat, row.lat) <= probe.radius_m
                  => Between(probe.returned, row)

\* the lights of a list whose bearing from the point differs from the heading
\* by at most the cone half-width
RECURSIVE InCone(_, _, _, _)
InCone(lights, lat, heading, cone) ==
    IF lights = <<>> THEN <<>>
    ELSE LET l == Head(lights)
             rest == InCone(Tail(lights), lat, heading, cone)
         IN IF AngularDifference(Bearing(lat, l.lat), heading) <= cone
            THEN <<l>> \o rest ELSE rest

\* a query with a heading has been made
HeadingQueryMade ==
    /\ probe.op = "get_nearby_lights_fast"
    /\ probe.heading # None

\* C19 (as claimed): a query with a heading returns the lights of the query
\* without heading that lie within the cone, in the same order.
C19_HeadingFilterSelects ==
    HeadingQueryMade
        => /\ probe.raised = "none"
           /\ probe.returned = InCone(GetNearbyLightsFast(probe.lat, probe.radius_m),
                                      probe.lat, probe.heading[1], probe.heading_cone[1])

\* the elements of a list
Range(seq) == {seq[i] : i \in 1..Len(seq)}

\* C20 (as claimed): what a query with a heading returns is also returned by
\* the same query with any wider cone.
C20_WiderConeReturnsMore ==
    HeadingQueryMade
        => \A c2 \in QueryCones :
              probe.heading_cone[1] < c2
                 => LET wide == CallGetNearbyLightsFast(probe.lat, probe.radius_m,
                                                        QueryLoopKeywords)
                    IN /\ probe.raised = "none"
                       /\ wide.raised = "none"
                       /\ Range(probe.returned) \subseteq Range(wide.lights)

\* C22 (as claimed): a query whose latitude, longitude and radius are in
\* range returns a list and raises nothing, with or without the heading and
\* cone arguments.
C22_ValidQueryNeverRaises ==
    (probe.op = "get_nearby_lights_fast" /\ probe.radius_m > 0)
        => probe.raised = "none"

-----------------------------------------------------------------------------
(* Properties of the threads and statistics over start() and stop()         *)
(* (checked under Spec)                                                     *)

\* the caller's start() returns True in this step
StartReturnsTrue == cpc = "s_run" /\ cpc' = "idle"

\* C28 (as claimed): with no actuator port configured start() opens no
\* actuator channel, so that no tick has a channel to write to, and a tick
\* whose query finds a record still delivers its alert.
C28_NoActuatorStillAlerts ==
    [][ ~arduino_port
          => /\ arduino_serial' # "open"
             /\ \A t \in Threads :
                   (TickEnds(t) /\ TickResult(t) # <<>> /\ alerts < MaxCount)
                       => alerts' = alerts + 1 ]_vars

C30_OneReaderOnePoller ==
    LET readers == {t \in Threads : Alive(rpc[t])}
        pollers == {t \in Threads : Alive(qpc[t])}
    IN /\ Cardinality(readers) <= 1
       /\ Cardinality(pollers) <= 1
       /\ (running /\ cpc = "idle") => (Cardinality(readers) = 1 /\ Cardinality(pollers) = 1)


\* ---- C27 ----
ActuatorOps == {"_send_arduino_alert", "send_distance_to_arduino", "_coordination_loop"}

Froms(m) == [j \in 1..Len(m) |-> m[j].from]

\* C27 (as stated): every message written to the actuator channel is one
\* newline-terminated line that contains a state or zone token, a distance
\* value and a speed value, the pipeline's per-alert message included.
C27_EveryMessageHasSpeed ==
    probe.op \in ActuatorOps =>
        \A i \in 1..Len(probe.written) :
            LET m == probe.written[i]
            IN /\ m[Len(m)] = Newline
               /\ \E j \in 1..Len(m) : m[j].from \in {"state", "zone"}
               /\ \E j \in 1..Len(m) : m[j].from \in {"distance", "distance_m"}
               /\ \E j \in 1..Len(m) : m[j].from = "speed"

\* C27 (amended): every message written to the actuator channel is one line
\* with the newline as its last and only terminator; the coordinator's
\* message is the CV state, the GPS distance and the GPS speed of the system
\* state after the update of that round; the pipeline's per-alert message is
\* LIGHT, the record id, the distance to one decimal and the zone, and its
\* raw-distance message is DIST and the distance: neither carries a speed.
C27_ActuatorLines ==
    probe.op \in ActuatorOps =>
        \A i \in 1..Len(probe.written) :
            LET m == probe.written[i]
            IN /\ m[Len(m)] = Newline
               /\ \A j \in 1..(Len(m) - 1) : m[j] # Newline
               /\ probe.op = "_coordination_loop" =>
                     /\ probe.after = ApplyUpdate(probe.before, probe.update)
                     /\ Froms(m) = <<"state", "distance", "speed", "literal">>
                     /\ m[1].text = probe.after.cv_state
                     /\ m[2].text = probe.after.gps_distance
                     /\ m[3].text = probe.after.gps_speed
               /\ probe.op = "_send_arduino_alert" =>
                     /\ Froms(m) = <<"literal", "light_id", "distance_m", "zone", "literal">>
                     /\ m[1].text = "LIGHT"
                     /\ m[2].text = probe.alert.light_id
                     /\ m[3].text = FormatTenths(probe.alert.distance_m)
                     /\ m[4].text = probe.alert.zone
               /\ probe.op = "send_distance_to_arduino" =>
                     /\ Froms(m) = <<"literal", "distance_m", "literal">>
                     /\ m[1].text = "DIST"
                     /\ m[2].text = FormatTenths(probe.distance_m)

\* an alert for a record 75 m away has been written to an open channel
C27_Witness ==
    /\ probe.op = "_send_arduino_alert"
    /\ probe.alert.distance_m = 7500
    /\ probe.alert.zone = "near"
    /\ Len(probe.written) = 1

\* ---- C23 ----
\* C23: constructing the index fails with the not-found error when the file
\* is absent, without creating it, and with an invalid-dataset error
\* (ValueError, or SQLite's DatabaseError) when the file lacks the expected
\* structure of a table traffic_lights with columns id, lat, lon; in neither
\* case is an index returned.
C23_ConstructorRejects ==
    probe.op = "__init__" =>
        /\ ~probe.file.exists =>
              probe.raised = "FileNotFoundError" /\ ~probe.exists
        /\ (probe.file.exists /\ ~(probe.file.sqlite /\ probe.file.table /\ probe.file.columns)) =>
              probe.raised \in {"ValueError", "DatabaseError"}

\* ---- C21 ----
\* the arguments the claim calls invalid
OutOfRange(args) ==
    \/ args.lat < 0 - 900000
    \/ args.lat > 900000
    \/ args.lon < 0 - 1800000
    \/ args.lon > 1800000
    \/ args.radius_m <= 0

\* C21: a query with a latitude outside [-90, 90], a longitude outside
\* [-180, 180] or a radius <= 0 raises ValueError before the dataset lock
\* is taken or the dataset is read: such a call is never past its
\* validation, never holds the lock and has no cursor and no candidates,
\* and the step that rejects it changes neither the locks nor the
\* connections.
C21_InvalidRejectedFirst ==
    /\ [](\A c \in Clients :
             (lpc[c] # "idle" /\ OutOfRange(asked[c])) =>
                 /\ lpc[c] \in {"validate", "raised"}
                 /\ locks["dataset"] # c
                 /\ Local(c).cursor = <<>>
                 /\ Local(c).candidates = {})
    /\ [][\A c \in Clients :
             (lpc[c] = "validate" /\ lpc'[c] # "validate" /\ OutOfRange(asked[c])) =>
                 /\ lpc'[c] = "raised"
                 /\ frame'[FrameOf(c)].raised = "ValueError"
                 /\ UNCHANGED <<locks, conn, asked, served>>]_vars

\* a call with a longitude out of range has been rejected while the other
\* client holds the dataset lock
C21_Witness ==
    /\ lpc["a"] = "raised"
    /\ asked["a"].lon = 1800001
    /\ Local("a").raised = "ValueError"
    /\ locks["dataset"] = "b"

\* ---- C24 ----
\* the same query issued alone
SerialResult(args) ==
    IF QueryInvalid(args.lat, args.lon, args.radius_m)
    THEN [raised |-> "ValueError", lights |-> <<>>]
    ELSE [raised |-> "none", lights |-> GetNearbyLightsFast(args.lat, args.radius_m)]

\* C24: threads querying one unchanging dataset concurrently each receive,
\* for every query, the ordered result of the same query issued serially,
\* in every interleaving.
C24_ConcurrentEqualsSerial ==
    \A c \in Clients :
        lpc[c] \in {"return", "raised"} =>
            /\ Local(c).raised = SerialResult(asked[c]).raised
            /\ Local(c).results = SerialResult(asked[c]).lights

\* both clients are returning from their second call, with different
\* results
C24_Witness ==
    /\ lpc["a"] = "return" /\ lpc["b"] = "return"
    /\ served["a"] = 1 /\ served["b"] = 1
    /\ Len(Local("a").results) = 2
    /\ Len(Local("b").results) = 3

\* ---- C25 ----
RetrievalStep == {"get_connection", "execute", "fetchall"}

\* C25: the retrieval step is not serialized by one lock: while a thread is
\* inside the retrieval step, another thread that has reached it can enter
\* it too.
C25_RetrievalNotSerialized ==
    \A c \in Clients, d \in Clients :
        (c # d /\ lpc[c] \in RetrievalStep /\ lpc[d] = "with_lock")
            => ENABLED ClientAcquire(d)

\* ---- C26 ----
\* the statements that perform sensor I/O, run a callback, run a query or
\* sleep in a handler
OutsideStatements ==
    {"readline", "handler", "gga_build", "gga_callback", "query",
     "validate", "with_lock", "get_connection", "execute", "fetchall",
     "filter", "sort", "return", "raised"}

\* the statements that copy a value in or out
CopyStatements ==
    {"gga_old", "gga_new", "vtg_update", "snapshot", "position", "result",
     "cb_position", "cb_result"}

\* C26: the Fix lock and the result-list lock are held only while a value
\* is copied in or out, never while a query runs, while I/O is performed or
\* while a callback executes; the dataset lock is released before distance
\* computation, filtering and sorting.
C26_LocksOnlyAroundCopies ==
    /\ \A t \in LockThreads :
          lpc[t] \in OutsideStatements =>
              locks["position"] # t /\ locks["result"] # t
    /\ \A t \in LockThreads :
          (locks["position"] = t \/ locks["result"] = t) => lpc[t] \in CopyStatements
    /\ \A c \in Clients :
          lpc[c] \in {"filter", "sort", "return"} => locks["dataset"] # c
    /\ \A c \in Clients :
          locks["dataset"] = c => lpc[c] \in RetrievalStep

\* the reader is writing the Fix under its lock, the poller waits for that
\* lock, an accessor copies the result list, and a client filters its
\* candidates
C26_Witness ==
    /\ locks["position"] = "reader" /\ lpc["reader"] = "gga_new"
    /\ lpc["poller"] = "snapshot_with"
    /\ locks["result"] = "caller"
    /\ lpc["a"] = "filter" /\ locks["dataset"] = "free"

\* ---- C31 ----
StopReturns == cpc = "p_close_db" /\ cpc' = "idle"

C32_DroppedLinesChangeNothing ==
    [][\A t \in Threads :
          /\ \A line \in SkippedLines :
                ReaderReads(t, line) =>
                    /\ rpc'[t] \in ContinueStatements
                    /\ position' = position /\ heap' = heap
          /\ (rpc[t] \in ContinueStatements /\ rpc'[t] # rpc[t]) =>
                    /\ rpc'[t] = "loop"
                    /\ position' = position /\ heap' = heap
          /\ (rpc[t] = "loop" /\ rpc'[t] # rpc[t] /\ running) => rpc'[t] = "read"]_vars

\* with a Fix published, the reader has dropped a sentence of another type
C32_Witness ==
    /\ position # 0
    /\ rpc[1] = "continue_other"

\* ---- C33 ----
\* C33: with a callback registered, the position callback is invoked once
\* for each published Fix, by the thread that published it and after the
\* publication, and while the callback for a Fix runs the published Fix is
\* that Fix; it is not invoked for a position frame of quality 0 or for a
\* velocity frame.
C33_CallbackOncePerFix ==
    [][\A t \in Threads :
          /\ rpc[t] = "gga_cb" => position = rnew[t]
          /\ (rpc[t] = "gga_pub" /\ rpc'[t] # rpc[t] /\ on_position) =>
                 /\ rpc'[t] = "gga_cb"
                 /\ position' # position
                 /\ position' = rnew'[t]
          /\ (rpc'[t] = "gga_cb" /\ rpc[t] # "gga_cb") => rpc[t] = "gga_pub"
          /\ (rpc[t] = "gga_cb" /\ rpc'[t] # rpc[t]) => rpc'[t] \in {"loop", "cb_except"}
          /\ (rpc[t] = "gga" /\ rpc'[t] # rpc[t] /\ rmsg[t].gps_qual = Some(0)) =>
                 rpc'[t] = "loop"
          /\ (rpc[t] = "vtg" /\ rpc'[t] # rpc[t]) => rpc'[t] = "loop"]_vars

\* ---- C34 ----
\* C34: once a Fix has been published the instance always has one: no step,
\* be it a position frame of quality 0, a sensor read that raises, stop()
\* or a later start(), sets the published Fix back to None, and
\* get_current_position() called from then on never returns None.
C34_FixNeverCleared ==
    [][/\ position # 0 => position' # 0
       /\ (position # 0 /\ snap' # snap) => snap'.ref # 0]_vars

\* a Fix published in the first run is still there in the second run, after
\* a stop() and a start(), and an accessor has just been handed it
C34_Witness ==
    /\ position # 0
    /\ stopped /\ starts = 2 /\ running
    /\ snap.ref = position

\* ---- C35 ----
\* C35: in every reachable state the stored result list is in ascending
\* order of distance and holds no element farther than the search radius;
\* get_closest_light() returns its first element, and None exactly when it
\* is empty; is_approaching_light(t) is true exactly when that first element
\* exists and its distance is at most t.
C35_StoredListAndAccessors ==
    /\ \A i \in 1..Len(nearby_lights) :
          /\ nearby_lights[i].distance <= SearchRadius
          /\ \A j \in 1..Len(nearby_lights) :
                i <= j => nearby_lights[i].distance <= nearby_lights[j].distance
    /\ probe.op \in {"get_closest_light", "is_approaching_light"} => probe.raised = "none"
    /\ probe.op = "get_closest_light" =>
          /\ (probe.returned = None) <=> (probe.stored = <<>>)
          /\ probe.stored # <<>> => probe.returned = Some(probe.stored[1])
    /\ probe.op = "is_approaching_light" =>
          (probe.returned <=>
              (probe.stored # <<>> /\ probe.stored[1].distance <= probe.threshold_m))

\* the pipeline has a Fix and a poller has finished a tick for it; a caller
\* has asked for the closest light
C35_Witness ==
    /\ probe.op = "get_closest_light"
    /\ probe.returned = None
    /\ position # 0
    /\ \E t \in Threads : qpc[t] = "loop" /\ qpos[t] = position

LockStepOf(t) ==
    IF t = "reader" THEN LockReaderStep
    ELSE IF t = "poller" THEN LockPollerStep
    ELSE IF t = "caller" THEN LockAccessorStep
    ELSE ClientStep(t)

\* the pipeline's threads and the one database client of the lock
\* specification
LockActors == {"reader", "poller", "caller", "a"}

\* C37: the pipeline cannot deadlock: no thread holds two locks, none is
\* held while a callback runs, a callback that calls an accessor can enter
\* it and return, and every thread either can take a step or waits for a
\* lock whose holder can take one.
C37_NoDeadlock ==
    /\ \A t \in LockActors : Cardinality({l \in LockNames : locks[l] = t}) <= 1
    /\ lpc["reader"] = "gga_callback" => \A l \in LockNames : locks[l] # "reader"
    /\ \A t \in LockActors :
          \/ ENABLED LockStepOf(t)
          \/ \E u \in LockActors \ {t} :
                /\ \E l \in LockNames : locks[l] = u
                /\ ENABLED LockStepOf(u)
          \/ t = "a" /\ lpc["a"] = "idle" /\ served["a"] = MaxQueries

\* the callback is inside get_current_position() while the poller waits for
\* the Fix lock and an outside caller copies the result list
C37_Witness ==
    /\ lpc["reader"] = "cb_position" /\ locks["position"] = "reader"
    /\ lpc["poller"] = "snapshot_with"
    /\ locks["result"] = "caller"

-----------------------------------------------------------------------------
(* Properties of the coordinator's state queue (checked under SpecQueue) *)

CvFields == {"cv_state", "cv_confidence", "cv_fps"}
GpsFields == {"gps_distance", "gps_speed", "gps_satellites",
              "gps_nearby_lights", "gps_has_fix"}
OtherFields == {"arduino_connected", "timestamp"}

\* the coordinator takes an update of the given type in this step
Takes(type) == state_queue'[type] < state_queue[type]

\* the fields of the system state this step leaves as they were
Keeps(fields) == \A f \in fields : system_state'[f] = system_state[f]

\* C38, as stated: a CV update changes only the cv_* fields and a GPS update
\* only the gps_* fields of the system state; every other field, the
\* timestamp included, keeps its value.
C38_UpdateChangesOnlyItsFields ==
    [][/\ Takes("CV") => Keeps(GpsFields \cup OtherFields)
       /\ Takes("GPS") => Keeps(CvFields \cup OtherFields)]_vars

\* C38, amended: the state queue never holds more than 100 pending updates;
\* a producer that finds it full drops its update and goes back to its loop,
\* so neither producer blocks or dies; the coordinator takes at most one
\* update per loop iteration; a CV update changes only the cv_* fields and
\* the timestamp, a GPS update only the gps_* fields and the timestamp.
C38_QueueBoundedProducersDrop ==
    /\ [](/\ state_queue["CV"] + state_queue["GPS"] <= 100
          /\ taken <= 1
          /\ \A p \in Producers : ppc[p] \in {"idle", "loop", "callback", "stopped"})
    /\ [][/\ \A p \in Producers :
                (/\ ppc[p] = "callback"
                 /\ ppc'[p] # "callback"
                 /\ state_queue["CV"] + state_queue["GPS"] = 100
                 /\ loop' = loop)
                    => state_queue' = state_queue /\ ppc'[p] = "loop"
          /\ Takes("CV") => Keeps(GpsFields \cup {"arduino_connected"})
          /\ Takes("GPS") => Keeps(CvFields \cup {"arduino_connected"})
          /\ (Takes("CV") \/ Takes("GPS")) =>
                /\ loop = "get"
                /\ loop' = "send"
                /\ state_queue["CV"] + state_queue["GPS"]
                      = state_queue'["CV"] + state_queue'["GPS"] + 1]_vars

\* the queue is full while the detection thread is in its callback, and the
\* coordinator has taken a CV and a GPS update, one of them in this iteration
C38_Witness ==
    /\ state_queue["CV"] + state_queue["GPS"] = 100
    /\ ppc["detection"] = "callback"
    /\ system_state.cv_state = "ACTIVE_RED"
    /\ system_state.gps_has_fix
    /\ system_state.timestamp > 0
    /\ taken = 1

-----------------------------------------------------------------------------
(* Properties of the ArduinoInterface in the coordination loop (checked     *)
(* under SpecArduino)                                                       *)

\* the coordinator's call of send_state returns in this step
SendStateReturns == loop = "send" /\ loop' = "test"

\* C39: send_state writes nothing and returns False whenever the interface
\* is not connected or no_arduino is set; a write error sets connected to
\* False, and once the constructor has returned connected never goes from
\* False to True, so every later call writes nothing; the coordination loop
\* goes on to its next iteration after the error.
C39_DisconnectedWritesNothing ==
    [][/\ (SendStateReturns /\ (~arduino.connected \/ arduino.no_arduino)) =>
              /\ last_send'.written = <<>>
              /\ ~last_send'.returned
              /\ ~last_send'.raised
       /\ (SendStateReturns /\ last_send'.raised) =>
              /\ ~arduino'.connected
              /\ last_send'.written = <<>>
              /\ loop' = "test"
              /\ ss_running'
       /\ (loop # "new" /\ ~arduino.connected) => ~arduino'.connected]_vars

\* a port that is open while the interface is not connected is one whose
\* write has failed; afterwards a further call has returned False without
\* writing, and the loop is in a later iteration
C39_Witness ==
    /\ arduino.ser = "open"
    /\ ~arduino.connected
    /\ ~arduino.no_arduino
    /\ last_send.called
    /\ ~last_send.raised
    /\ ~last_send.returned
    /\ last_send.written = <<>>
    /\ ss_running
    /\ loop = "get"

-----------------------------------------------------------------------------
(* Properties of the detection state machine (checked under SpecDetect) *)

\* the detection loop processes a frame in this step
FrameProcessed == ppc["detection"] = "loop" /\ ppc'["detection"] = "callback"

\* the ACTIVE state of the highest-priority class among the detections
HighestPriorityState(detected) ==
    IF \E i \in DOMAIN detected : detected[i][1] = "red" THEN "ACTIVE_RED"
    ELSE IF \E i \in DOMAIN detected : detected[i][1] = "yellow"
    THEN "ACTIVE_YELLOW"
    ELSE "ACTIVE_GREEN"

\* C40: a frame with at least one recognized detection resets the miss
\* counter and sets the state to the ACTIVE state of the highest-priority
\* detected class, red over yellow over green, whatever the confidences; a
\* frame without one counts one more miss, keeps the state while fewer than
\* 3 frames in a row have been missed and sets it to IDLE from the 3rd on;
\* the state is always IDLE, ACTIVE_RED, ACTIVE_YELLOW or ACTIVE_GREEN.
C40_DetectionStateMachine ==
    /\ [](detection.current_state
             \in {"IDLE", "ACTIVE_RED", "ACTIVE_YELLOW", "ACTIVE_GREEN"})
    /\ [][FrameProcessed =>
             IF detection'.detected # <<>>
             THEN /\ detection'.missed_frames = 0
                  /\ detection'.current_state
                        = HighestPriorityState(detection'.detected)
             ELSE /\ detection'.missed_frames = detection.missed_frames + 1
                  /\ detection'.missed_frames < 3 =>
                        detection'.current_state = detection.current_state
                  /\ detection'.missed_frames >= 3 =>
                        detection'.current_state = "IDLE"]_vars

\* two frames in a row without a detection after a yellow light: the state
\* is still ACTIVE_YELLOW
C40_Witness ==
    /\ detection.current_state = "ACTIVE_YELLOW"
    /\ detection.missed_frames = 2
    /\ detection.detected = <<>>
=============================================================================
